---- MODULE Spec2Model ----
(***************************************************************************)
(* Model of the deterministic divination engine of tarot-oracle            *)
(* (src/tarot_oracle/tarot.py): seed derivation, the linear-congruential   *)
(* generator, the deck with its Fisher-Yates shuffle and reversal          *)
(* assignment, spread-layout normalisation, the semantic adapter, the      *)
(* guidance rules of the semantic analyzer, and card notation.             *)
(*                                                                         *)
(* Text is a sequence of Unicode code points (a Python str), so that       *)
(* comparison, concatenation and replacement are what Python computes.     *)
(* A Card object is identified by its allocation index in the deck that    *)
(* created it; Deck.cards, Deck.shuffled and every returned list hold      *)
(* references to these objects, and is_reversed is the one mutable field.  *)
(***************************************************************************)
EXTENDS Integers, Sequences, FiniteSets, TLC

VARIABLES
    deck_path,     \* argument of TarotDivination(deck_path): the custom deck file k, which holds k cards
    cards,         \* Deck.cards: canonical order, references to Card objects
    shuffled,      \* Deck.shuffled: shuffled order, references to the same objects
    is_reversed,   \* Card.is_reversed of every Card object of the deck
    was_shuffled,  \* history: shuffle_and_assign_reversals has run on this deck
    returned,      \* history: cards handed out since the last shuffle by the draws before the last call
    call,          \* the last call made on the engine and its arguments
    result,        \* what that call returned or raised
    run1,          \* history: what the reading before the last one returned
    adapter,       \* the SemanticAdapter object under construction or in use
    output,        \* what the last operation on the adapter or renderer produced
    analyzer,      \* the SemanticAdapter and SemanticAnalyzer of the reading under analysis
    guidance,      \* the last call made on the analyzer and what it returned
    notation,      \* the last Card.get_notation call: the card, its orientation, the token
    resolved,      \* the last resolve_card_codes call: its argument and what it returned or raised
    last_rng,      \* the DeterministicRNG object last built: its state and, as history, its calls
    twin_rng,      \* a second DeterministicRNG, built with the seed of the first wrapped to 31 bits
    pending        \* the readings that have shuffled the shared deck and not yet drawn

deck_vars == <<deck_path, cards, shuffled, is_reversed, was_shuffled, returned, call, result>>
sem_vars == <<adapter, output>>
guide_vars == <<analyzer, guidance>>
code_vars == <<notation, resolved>>
eng_vars == <<last_rng, twin_rng, pending>>
vars == <<deck_vars, run1, sem_vars, guide_vars, code_vars, eng_vars>>

----------------------------------------------------------------------------
(* Bounds of the model *)

MaxCustomDeck == 3      \* custom deck files hold 1..MaxCustomDeck cards
MaxDraw == 4            \* draw_cards is called directly with counts 0..MaxDraw

----------------------------------------------------------------------------
(* Small helpers *)

Min(a, b) == IF a < b THEN a ELSE b
Max(a, b) == IF a > b THEN a ELSE b
Range(s) == {s[i] : i \in 1..Len(s)}

(* Python None where a text may stand, and Python truthiness of a text *)
None == <<-1>>
Truthy(text) == text # None /\ text # <<>>

(* Python s[:n] for any integer n *)
SliceTo(s, n) ==
    IF n >= 0 THEN SubSeq(s, 1, Min(n, Len(s)))
    ELSE SubSeq(s, 1, Max(Len(s) + n, 0))

RECURSIVE Concat(_)
Concat(ss) == IF ss = <<>> THEN <<>> ELSE Head(ss) \o Concat(Tail(ss))

----------------------------------------------------------------------------
(* 31-bit arithmetic.  Values of the generator exceed what a product of    *)
(* two machine integers can hold, so (a * b + c) & 0x7fffffff is computed  *)
(* on 11-bit limbs; only the low 31 bits of the product are kept.          *)

Limb == 2048
Two22 == 4194304
Two9 == 512

MulAddLow31(a, b, c) ==
    LET a0 == a % Limb
        a1 == (a \div Limb) % Limb
        a2 == a \div (Limb * Limb)
        b0 == b % Limb
        b1 == (b \div Limb) % Limb
        b2 == b \div (Limb * Limb)
        mid == a0 * b1 + a1 * b0
        low == a0 * b0 + Limb * (mid % Limb) + c
        high == (mid \div Limb) + a0 * b2 + a1 * b1 + a2 * b0 + (low \div Two22)
    IN  (high % Two9) * Two22 + (low % Two22)

----------------------------------------------------------------------------
(* DeterministicRNG.  The state is an unbounded Python int: hi counts the  *)
(* multiples of 2^31 above the low 31 bits lo.  The object also carries,   *)
(* as history, the calls of next_int made on it: bound and value returned. *)

LcgMultiplier == 1103515245
LcgIncrement == 12345

(* a constructor that folds the bits above the low 30 into the state *)
RngInitFolded(seed) == [hi |-> 0, lo |-> (seed.lo % 1073741824) + seed.hi, calls |-> <<>>]

RngInit(seed) == [hi |-> seed.hi, lo |-> seed.lo, calls |-> <<>>]

(* next_int without the increment *)
NextIntNoIncrement(state, max_value) ==
    LET lo == MulAddLow31(state.lo, LcgMultiplier, 0)
    IN  [state |-> [hi |-> 0, lo |-> lo,
                    calls |-> Append(state.calls, [max_value |-> max_value,
                                                   value |-> lo % max_value])],
         value |-> lo % max_value]

(* next_int: returns the new state and the value produced *)
NextInt(state, max_value) ==
    LET lo == MulAddLow31(state.lo, LcgMultiplier, LcgIncrement)
    IN  [state |-> [hi |-> 0, lo |-> lo,
                    calls |-> Append(state.calls, [max_value |-> max_value,
                                                   value |-> lo % max_value])],
         value |-> lo % max_value]

----------------------------------------------------------------------------
(* Cards *)

Card(name, card_type, suit, value) ==
    [name |-> name, card_type |-> card_type, suit |-> suit, value |-> value]

major_arcana ==
  << <<"Fool", <<48>>>>,
     <<"Magician", <<73>>>>,
     <<"High Priestess", <<73, 73>>>>,
     <<"Empress", <<73, 73, 73>>>>,
     <<"Emperor", <<73, 86>>>>,
     <<"Hierophant", <<86>>>>,
     <<"Lovers", <<86, 73>>>>,
     <<"Chariot", <<86, 73, 73>>>>,
     <<"Strength", <<86, 73, 73, 73>>>>,
     <<"Hermit", <<73, 88>>>>,
     <<"Wheel of Fortune", <<88>>>>,
     <<"Justice", <<88, 73>>>>,
     <<"Hanged Man", <<88, 73, 73>>>>,
     <<"Death", <<88, 73, 73, 73>>>>,
     <<"Temperance", <<88, 73, 86>>>>,
     <<"Devil", <<88, 86>>>>,
     <<"Tower", <<88, 86, 73>>>>,
     <<"Star", <<88, 86, 73, 73>>>>,
     <<"Moon", <<88, 86, 73, 73, 73>>>>,
     <<"Sun", <<88, 73, 88>>>>,
     <<"Judgement", <<88, 88>>>>,
     <<"World", <<88, 88, 73>>>> >>

suits == << <<"W", "Wands">>, <<"C", "Cups">>, <<"S", "Swords">>, <<"P", "Pentacles">> >>

values ==
  << <<<<65>>, "Ace">>,
     <<<<50>>, "Two">>,
     <<<<51>>, "Three">>,
     <<<<52>>, "Four">>,
     <<<<53>>, "Five">>,
     <<<<54>>, "Six">>,
     <<<<55>>, "Seven">>,
     <<<<56>>, "Eight">>,
     <<<<57>>, "Nine">>,
     <<<<49, 48>>, "Ten">>,
     <<<<80>>, "Page">>,
     <<<<78>>, "Knight">>,
     <<<<81>>, "Queen">>,
     <<<<75>>, "King">> >>

(* Deck._create_deck: 22 major cards, then 4 suits of 14 cards *)
CreateDeck ==
    [i \in 1..(Len(major_arcana) + Len(suits) * Len(values)) |->
        IF i <= Len(major_arcana)
        THEN Card(major_arcana[i][1], "major", "None", major_arcana[i][2])
        ELSE LET k == i - Len(major_arcana) - 1
                 s == suits[(k \div Len(values)) + 1]
                 v == values[(k % Len(values)) + 1]
             IN  Card(v[2] \o " of " \o s[2], "minor", s[1], v[1])]

(* The entries of the custom deck files the model loads: the cards the     *)
(* test-suite builds by hand.                                              *)
CustomCardData ==
  << Card("The Tower", "major", "None", <<88, 86, 73>>),
     Card("Two of Cups", "minor", "C", <<50>>),
     Card("Knight of Wands", "minor", "W", <<75, 110, 105, 103, 104, 116>>),
     Card("Three of Swords", "minor", "S", <<51>>),
     Card("The Emperor", "major", "None", <<73, 86>>),
     Card("Ace of Pentacles", "minor", "P", <<65>>) >>

(* Deck._load_custom_deck for the deck file holding the first k entries *)
LoadCustomDeck(k) == SubSeq(CustomCardData, 1, k)

(* The Card objects Deck.__init__ creates for a deck path *)
DeckCards(path) == IF path = 0 THEN CreateDeck ELSE LoadCustomDeck(path)

----------------------------------------------------------------------------
(* Deck.shuffle_and_assign_reversals *)

(* a loop that copies position j over position i without the swap *)
RECURSIVE FisherYatesOverwrite(_, _, _)
FisherYatesOverwrite(s, i, rng) ==
    IF i < 1 THEN [shuffled |-> s, rng |-> rng]
    ELSE LET r == NextInt(rng, i + 1)
             j == r.value
         IN  FisherYatesOverwrite([s EXCEPT ![i + 1] = s[j + 1]], i - 1, r.state)

(* the Fisher-Yates loop from 0-based index i down to 1; s is 1-based *)
RECURSIVE FisherYates(_, _, _)
FisherYates(s, i, rng) ==
    IF i < 1 THEN [shuffled |-> s, rng |-> rng]
    ELSE LET r == NextInt(rng, i + 1)
             j == r.value
         IN  FisherYates([s EXCEPT ![i + 1] = s[j + 1], ![j + 1] = s[i + 1]],
                         i - 1, r.state)

(* a reversal loop that toggles each flag instead of assigning it *)
RECURSIVE AssignReversalsToggle(_, _, _, _)
AssignReversalsToggle(s, k, flags, rng) ==
    IF k > Len(s) THEN [is_reversed |-> flags, rng |-> rng]
    ELSE LET r == NextInt(rng, 2)
         IN  AssignReversalsToggle(s, k + 1,
                 [flags EXCEPT ![s[k]] = (flags[s[k]] # (r.value = 1))], r.state)

(* the reversal loop over the shuffled list from position k on *)
RECURSIVE AssignReversals(_, _, _, _)
AssignReversals(s, k, flags, rng) ==
    IF k > Len(s) THEN [is_reversed |-> flags, rng |-> rng]
    ELSE LET r == NextInt(rng, 2)
         IN  AssignReversals(s, k + 1, [flags EXCEPT ![s[k]] = (r.value = 1)], r.state)

(* the reversals assigned in canonical order before the swaps *)
ShuffleAfterReversals(deck_cards, flags, rng, allow_reversed) ==
    IF allow_reversed
    THEN LET ar == AssignReversals(deck_cards, 1, flags, rng)
             fy == FisherYates(deck_cards, Len(deck_cards) - 1, ar.rng)
         IN  [shuffled |-> fy.shuffled, is_reversed |-> ar.is_reversed, rng |-> fy.rng]
    ELSE LET fy == FisherYates(deck_cards, Len(deck_cards) - 1, rng)
         IN  [shuffled |-> fy.shuffled, is_reversed |-> flags, rng |-> fy.rng]

ShuffleAndAssignReversals(deck_cards, flags, rng, allow_reversed) ==
    LET fy == FisherYates(deck_cards, Len(deck_cards) - 1, rng)
    IN  IF allow_reversed
        THEN LET ar == AssignReversals(fy.shuffled, 1, flags, fy.rng)
             IN  [shuffled |-> fy.shuffled, is_reversed |-> ar.is_reversed, rng |-> ar.rng]
        ELSE [shuffled |-> fy.shuffled, is_reversed |-> flags, rng |-> fy.rng]

(* draw_cards without the check of an empty Deck.shuffled *)
DrawCardsUnchecked(deck_shuffled, count) ==
    [status |-> "ok", cards |-> SliceTo(deck_shuffled, count)]

(* Deck.draw_cards: the value returned, or the error raised *)
DrawCards(deck_shuffled, count) ==
    IF deck_shuffled = <<>>
    THEN [status |-> "ValueError", cards |-> <<>>]
    ELSE [status |-> "ok", cards |-> SliceTo(deck_shuffled, count)]

----------------------------------------------------------------------------
(* TarotDivination *)

(* hashlib.sha256 followed by int.from_bytes(..., 'little'): a fixed       *)
(* function of the encoded text whose value exceeds 31 bits.  The digest   *)
(* itself is abstracted by a polynomial hash of the code points.           *)
RECURSIVE Sha256Low(_, _)
Sha256Low(data, h) ==
    IF data = <<>> THEN h ELSE Sha256Low(Tail(data), MulAddLow31(h, 257, Head(data)))

Sha256Int(data) == [hi |-> Len(data) + 1, lo |-> Sha256Low(data, 5381)]

(* create_seed; entropy is the hex text of token_bytes(random_bytes) *)
SeedData(timestamp, question, invocation, random_bytes, entropy) ==
    (timestamp \o question)
    \o (IF Truthy(invocation) THEN <<124>> \o invocation ELSE <<>>)
    \o (IF random_bytes > 0 THEN entropy ELSE <<>>)

CreateSeed(timestamp, question, invocation, random_bytes, entropy) ==
    Sha256Int(SeedData(timestamp, question, invocation, random_bytes, entropy))

(* A layout argument is a Python list: flat (list[int]) or a matrix        *)
(* (list[list[int]]); kind records which, as isinstance(layout[0], int)    *)
(* does.                                                                   *)
Flat(v) == [kind |-> "flat", flat |-> v, rows |-> <<>>]
Matrix(v) == [kind |-> "matrix", flat |-> <<>>, rows |-> v]

PositiveCells(matrix) == Concat([r \in 1..Len(matrix) |-> SelectSeq(matrix[r], LAMBDA pos : pos > 0)])

(* a normalisation that counts each positive value once *)
NormalizeSpreadLayoutDistinct(spread_layout) ==
    LET normalized_layout ==
            IF spread_layout.flat = <<>> /\ spread_layout.rows = <<>> THEN <<>>
            ELSE IF spread_layout.kind = "flat" THEN <<spread_layout.flat>>
            ELSE spread_layout.rows
    IN  [layout |-> normalized_layout,
         needed_cards |-> Cardinality(Range(PositiveCells(normalized_layout)))]

(* _normalize_spread_layout *)
NormalizeSpreadLayout(spread_layout) ==
    LET normalized_layout ==
            IF spread_layout.flat = <<>> /\ spread_layout.rows = <<>> THEN <<>>
            ELSE IF spread_layout.kind = "flat" THEN <<spread_layout.flat>>
            ELSE spread_layout.rows
    IN  [layout |-> normalized_layout, needed_cards |-> Len(PositiveCells(normalized_layout))]

(* a reversal loop that never turns a reversed card upright again *)
RECURSIVE AssignReversalsSticky(_, _, _, _)
AssignReversalsSticky(s, k, flags, rng) ==
    IF k > Len(s) THEN [is_reversed |-> flags, rng |-> rng]
    ELSE LET r == NextInt(rng, 2)
         IN  AssignReversalsSticky(s, k + 1,
                 [flags EXCEPT ![s[k]] = (flags[s[k]] \/ r.value = 1)], r.state)

(* draw_cards_for_reading with the sticky reversal loop *)
DrawCardsForReadingSticky(deck_cards, flags, seed, spread_layout, allow_reversed) ==
    LET fy == FisherYates(deck_cards, Len(deck_cards) - 1, RngInit(seed))
        ar == IF allow_reversed THEN AssignReversalsSticky(fy.shuffled, 1, flags, fy.rng)
              ELSE [is_reversed |-> flags, rng |-> fy.rng]
        drawn == DrawCards(fy.shuffled, NormalizeSpreadLayout(spread_layout).needed_cards)
    IN  [shuffled |-> fy.shuffled, is_reversed |-> ar.is_reversed, rng |-> ar.rng,
         status |-> drawn.status, cards |-> drawn.cards]

(* draw_cards_for_reading on a deck whose canonical list is deck_cards and *)
(* whose Card objects carry the orientation flags given                    *)
DrawCardsForReading(deck_cards, flags, seed, spread_layout, allow_reversed) ==
    LET rng == RngInit(seed)
        sh == ShuffleAndAssignReversals(deck_cards, flags, rng, allow_reversed)
        needed_cards == NormalizeSpreadLayout(spread_layout).needed_cards
        drawn == DrawCards(sh.shuffled, needed_cards)
    IN  [shuffled |-> sh.shuffled, is_reversed |-> sh.is_reversed, rng |-> sh.rng,
         status |-> drawn.status, cards |-> drawn.cards]

----------------------------------------------------------------------------
(* Text *)

(* Python's < on str: comparison of code points, left to right *)
RECURSIVE StrLess(_, _)
StrLess(a, b) ==
    IF b = <<>> THEN FALSE
    ELSE IF a = <<>> THEN TRUE
    ELSE IF a[1] # b[1] THEN a[1] < b[1]
    ELSE StrLess(Tail(a), Tail(b))

(* list.sort() of a list of distinct str *)
RECURSIVE SortTexts(_)
SortTexts(S) ==
    IF S = {} THEN <<>>
    ELSE LET m == CHOOSE x \in S : \A y \in S \ {x} : StrLess(x, y)
         IN  <<m>> \o SortTexts(S \ {m})

(* sorted() of a set of int *)
RECURSIVE SortInts(_)
SortInts(S) ==
    IF S = {} THEN <<>>
    ELSE LET m == CHOOSE x \in S : \A y \in S : x <= y
         IN  <<m>> \o SortInts(S \ {m})

(* str.replace(old, new), old not empty *)
RECURSIVE Replace(_, _, _)
Replace(text, old, new) ==
    LET starts == {i \in 1..(Len(text) - Len(old) + 1) : SubSeq(text, i, i + Len(old) - 1) = old}
    IN  IF starts = {} THEN text
        ELSE LET first == CHOOSE i \in starts : \A j \in starts : i <= j
             IN  SubSeq(text, 1, first - 1) \o new
                 \o Replace(SubSeq(text, first + Len(old), Len(text)), old, new)

(* VARIABLE_DEFINITIONS, in the order of the dict: water, fire, air, earth, spirit *)
VARIABLE_DEFINITIONS ==
  << << <<119, 97, 116, 101, 114>>,
        <<69, 109, 111, 116, 105, 111, 110, 97, 108, 32, 66, 97, 115, 105, 115, 47, 83, 117, 98, 99, 111, 110, 115, 99, 105, 111, 117, 115, 32, 73, 110, 102, 108, 117, 101, 110, 99, 101, 115, 32, 40, 87, 97, 116, 101, 114, 41>> >>,
     << <<102, 105, 114, 101>>,
        <<75, 97, 114, 109, 105, 99, 32, 70, 111, 114, 99, 101, 115, 47, 67, 111, 115, 109, 105, 99, 32, 73, 110, 102, 108, 117, 101, 110, 99, 101, 115, 32, 40, 70, 105, 114, 101, 41>> >>,
     << <<97, 105, 114>>,
        <<80, 115, 121, 99, 104, 105, 99, 32, 66, 97, 115, 105, 115, 47, 77, 117, 116, 97, 98, 108, 101, 32, 73, 110, 102, 108, 117, 101, 110, 99, 101, 115, 32, 40, 65, 105, 114, 41>> >>,
     << <<101, 97, 114, 116, 104>>,
        <<77, 97, 116, 101, 114, 105, 97, 108, 47, 70, 111, 117, 110, 100, 97, 116, 105, 111, 110, 47, 80, 114, 97, 99, 116, 105, 99, 97, 108, 32, 73, 110, 102, 108, 117, 101, 110, 99, 101, 115, 32, 40, 69, 97, 114, 116, 104, 41>> >>,
     << <<115, 112, 105, 114, 105, 116>>,
        <<78, 97, 116, 117, 114, 101, 32, 111, 102, 32, 67, 105, 114, 99, 117, 109, 115, 116, 97, 110, 99, 101, 115, 47, 68, 105, 118, 105, 110, 101, 32, 87, 105, 108, 108, 32, 40, 83, 112, 105, 114, 105, 116, 41>> >> >>

(* "${" name "}" *)
Placeholder(var_name) == <<36, 123>> \o var_name \o <<125>>

(* SemanticAnalyzer.resolve_variables: one replace per definition, in order *)
RECURSIVE ResolveFrom(_, _)
ResolveFrom(text, k) ==
    IF k > Len(VARIABLE_DEFINITIONS) THEN text
    ELSE ResolveFrom(Replace(text, Placeholder(VARIABLE_DEFINITIONS[k][1]), VARIABLE_DEFINITIONS[k][2]),
                     k + 1)

(* resolve_variables without the first definition of the dict *)
ResolveVariablesSkipFirst(text) == ResolveFrom(text, 2)

ResolveVariables(text) == ResolveFrom(text, 1)

----------------------------------------------------------------------------
(* SpreadLoader (loaders.py): validation of the placeholders of a          *)
(* semantics matrix                                                        *)

valid_variables == { <<119, 97, 116, 101, 114>>, <<102, 105, 114, 101>>, <<97, 105, 114>>, <<101, 97, 114, 116, 104>>, <<115, 112, 105, 114, 105, 116>> }

(* re.findall(r'\$\{([^}]+)\}', cell): the names between '${' and the next  *)
(* '}', at least one character long, left to right without overlap         *)
RECURSIVE FindAllPlaceholders(_)
FindAllPlaceholders(cell) ==
    IF Len(cell) < 4 THEN <<>>
    ELSE IF /\ SubSeq(cell, 1, 2) = <<36, 123>>
            /\ cell[3] # 125
            /\ 125 \in Range(SubSeq(cell, 4, Len(cell)))
         THEN LET close == CHOOSE i \in 4..Len(cell) :
                               cell[i] = 125 /\ \A j \in 4..(i - 1) : cell[j] # 125
              IN  <<SubSeq(cell, 3, close - 1)>>
                  \o FindAllPlaceholders(SubSeq(cell, close + 1, Len(cell)))
         ELSE FindAllPlaceholders(Tail(cell))

(* _validate_variable_placeholders_matrix: whether SpreadError is raised *)
ValidateVariablePlaceholdersMatrixRaises(semantics) ==
    \E i \in 1..Len(semantics) : \E j \in 1..Len(semantics[i]) :
        /\ semantics[i][j] # None
        /\ \E m \in Range(FindAllPlaceholders(semantics[i][j])) : m \notin valid_variables

(* _validate_spread_config for a config with a name, a valid layout and    *)
(* this semantics matrix of str and null cells                             *)
ValidateSpreadConfig(semantics) ==
    IF semantics # <<>> /\ ValidateVariablePlaceholdersMatrixRaises(semantics)
    THEN [status |-> "SpreadError"]
    ELSE [status |-> "ok"]

----------------------------------------------------------------------------
(* SpreadRenderer and SemanticAdapter.  A dict is the sequence of its      *)
(* (key, value) entries in insertion order.                                *)

(* "General Information" *)
GeneralInformation ==
    <<71, 101, 110, 101, 114, 97, 108, 32, 73, 110, 102, 111, 114, 109, 97, 116, 105, 111, 110>>

(* the positive positions in order of first occurrence, not sorted *)
RECURSIVE FirstOccurrences(_, _)
FirstOccurrences(s, seen) ==
    IF s = <<>> THEN <<>>
    ELSE IF Head(s) <= 0 \/ Head(s) \in seen THEN FirstOccurrences(Tail(s), seen)
    ELSE <<Head(s)>> \o FirstOccurrences(Tail(s), seen \cup {Head(s)})

UniquePositionsUnsorted(layout) == FirstOccurrences(Concat(layout), {})

(* sorted(set(pos for pos in flat_positions if pos > 0)) *)
UniquePositions(layout) == SortInts({pos \in Range(Concat(layout)) : pos > 0})

(* list.index, 1-based; 0 when the value is absent *)
IndexOf(s, x) == IF x \in Range(s) THEN CHOOSE i \in 1..Len(s) : s[i] = x /\ \A j \in 1..(i - 1) : s[j] # x
                 ELSE 0

(* position_to_card of render_spread: unique_positions[i] -> cards[i] while i < len(cards) *)
PositionToCard(unique_positions, drawn) ==
    [position \in {unique_positions[i] : i \in 1..Min(Len(unique_positions), Len(drawn))} |->
        drawn[IndexOf(unique_positions, position)]]

(* SpreadRenderer.render_spread: the cells of the rendered spread, 0 for   *)
(* the blank of an empty position, else the card whose notation is shown;  *)
(* KeyError when a position has no card                                    *)
RenderSpread(drawn, spread_layout) ==
    LET is_matrix == Len(spread_layout) > 1
        linear_layout == IF spread_layout # <<>> THEN spread_layout[1] ELSE <<>>
        shown == IF is_matrix THEN spread_layout ELSE <<linear_layout>>
        unique_positions == IF is_matrix THEN UniquePositions(spread_layout)
                            ELSE UniquePositions(<<linear_layout>>)
        position_to_card == PositionToCard(unique_positions, drawn)
        missing == \E r \in 1..Len(shown) : \E c \in 1..Len(shown[r]) :
                      shown[r][c] # 0 /\ shown[r][c] \notin DOMAIN position_to_card
    IN  IF missing THEN [status |-> "KeyError", rows |-> <<>>]
        ELSE [status |-> "ok",
              rows |-> [r \in 1..Len(shown) |->
                          [c \in 1..Len(shown[r]) |->
                              IF shown[r][c] = 0 THEN 0 ELSE position_to_card[shown[r][c]]]]]

(* A semantic_config dict: the keys it has and its 'semantics' entry *)
Config(keys, semantics) == [keys |-> keys, semantics |-> semantics]
NoConfig == Config({}, <<>>)

(* the resolution loop of SemanticAdapter.__init__ *)
ResolveMatrix(matrix) ==
    [r \in 1..Len(matrix) |->
        [c \in 1..Len(matrix[r]) |->
            IF matrix[r][c] # None THEN ResolveVariables(matrix[r][c]) ELSE matrix[r][c]]]

(* _validate_dimensions comparing the numbers of rows only *)
ValidateRowCountRaises(layout, semantics) ==
    IF semantics = <<>> THEN FALSE ELSE Len(layout) # Len(semantics)

(* SemanticAdapter._validate_dimensions: TRUE when it raises ValueError *)
ValidateDimensionsRaises(layout, semantics) ==
    IF semantics = <<>> THEN FALSE
    ELSE IF Len(layout) # Len(semantics) THEN TRUE
    ELSE \E r \in 1..Len(layout) : Len(layout[r]) # Len(semantics[r])

(* SemanticAdapter.__init__: semantics is the argument (<<>> for None or   *)
(* []), semantic_config the dict (NoConfig for None or {})                 *)
SemanticAdapterInit(layout, drawn, semantics, semantic_config) ==
    LET from_config == semantics = <<>> /\ "semantics" \in semantic_config.keys
        self_semantics == IF from_config THEN ResolveMatrix(semantic_config.semantics)
                          ELSE semantics
    IN  [status |-> IF ValidateDimensionsRaises(layout, self_semantics) THEN "ValueError" ELSE "ok",
         layout |-> layout, cards |-> drawn, semantics |-> self_semantics,
         semantic_config |-> semantic_config,
         given |-> IF from_config THEN semantic_config.semantics ELSE semantics,
         from_config |-> from_config]

(* SemanticAdapter._get_semantic_for_position *)
GetSemanticForPosition(layout, semantics, position) ==
    IF semantics = <<>> THEN None
    ELSE LET cells == {rc \in UNION {{<<r, c>> : c \in 1..Len(layout[r])} : r \in 1..Len(layout)} :
                          layout[rc[1]][rc[2]] = position}
         IN  IF cells = {} THEN None
             ELSE LET first == CHOOSE rc \in cells : \A o \in cells :
                                   rc[1] < o[1] \/ (rc[1] = o[1] /\ rc[2] <= o[2])
                      semantic == semantics[first[1]][first[2]]
                  IN  IF Truthy(semantic) THEN semantic ELSE None

(* SemanticAdapter._build_card_index_to_semantic: card index (from 0) -> semantic *)
BuildCardIndexToSemantic(layout, semantics) ==
    LET unique_positions == UniquePositions(layout)
        labelled == {card_idx \in 0..(Len(unique_positions) - 1) :
                        GetSemanticForPosition(layout, semantics, unique_positions[card_idx + 1]) # None}
    IN  [card_idx \in labelled |->
            GetSemanticForPosition(layout, semantics, unique_positions[card_idx + 1])]

(* dict helpers *)
DictKeys(d) == {d[i][1] : i \in 1..Len(d)}
DictGet(d, key) == d[CHOOSE i \in 1..Len(d) : d[i][1] = key][2]
DictAppend(d, key, item) ==
    IF key \in DictKeys(d)
    THEN [i \in 1..Len(d) |-> IF d[i][1] = key THEN <<key, Append(d[i][2], item)>> ELSE d[i]]
    ELSE Append(d, <<key, <<item>>>>)

(* _group_cards_by_semantic leaving out the cards without a semantic *)
RECURSIVE GroupFromLabelled(_, _, _, _)
GroupFromLabelled(drawn, card_index_to_semantic, i, semantic_to_cards) ==
    IF i > Len(drawn) THEN semantic_to_cards
    ELSE GroupFromLabelled(drawn, card_index_to_semantic, i + 1,
                           IF (i - 1) \in DOMAIN card_index_to_semantic
                           THEN DictAppend(semantic_to_cards, card_index_to_semantic[i - 1], drawn[i])
                           ELSE semantic_to_cards)

(* SemanticAdapter._group_cards_by_semantic *)
RECURSIVE GroupFrom(_, _, _, _)
GroupFrom(drawn, card_index_to_semantic, i, semantic_to_cards) ==
    IF i > Len(drawn) THEN semantic_to_cards
    ELSE LET semantic == IF (i - 1) \in DOMAIN card_index_to_semantic
                         THEN card_index_to_semantic[i - 1]
                         ELSE GeneralInformation
         IN  GroupFrom(drawn, card_index_to_semantic, i + 1,
                       DictAppend(semantic_to_cards, semantic, drawn[i]))

GroupCardsBySemantic(layout, semantics, drawn) ==
    GroupFrom(drawn, BuildCardIndexToSemantic(layout, semantics), 1, <<>>)

(* render_semantic_legend sorting every key, "General Information" too *)
RenderSemanticLegendAllSorted(layout, semantics, drawn) ==
    LET semantic_groups == GroupCardsBySemantic(layout, semantics, drawn)
        semantic_keys == SortTexts(DictKeys(semantic_groups))
    IN  IF drawn = <<>> THEN <<>>
        ELSE [i \in 1..Len(semantic_keys) |->
                 <<semantic_keys[i], DictGet(semantic_groups, semantic_keys[i])>>]

(* SemanticAdapter.render_semantic_legend: the groups in the order their   *)
(* header and card lines are written; <<>> is the empty legend             *)
RenderSemanticLegend(layout, semantics, drawn) ==
    LET semantic_groups == GroupCardsBySemantic(layout, semantics, drawn)
        semantic_keys == SortTexts(DictKeys(semantic_groups) \ {GeneralInformation})
        named == [i \in 1..Len(semantic_keys) |->
                     <<semantic_keys[i], DictGet(semantic_groups, semantic_keys[i])>>]
    IN  IF drawn = <<>> THEN <<>>
        ELSE IF GeneralInformation \in DictKeys(semantic_groups)
             THEN Append(named, <<GeneralInformation, DictGet(semantic_groups, GeneralInformation)>>)
             ELSE named

(* SemanticAdapter._get_card_at_position: the card, 0 for None *)
GetCardAtPosition(layout, drawn, position) ==
    LET position_index == IndexOf(UniquePositions(layout), position)
    IN  IF position_index # 0 /\ position_index <= Len(drawn) THEN drawn[position_index] ELSE 0

----------------------------------------------------------------------------
(* Card notation *)

(* the suit letter as text; str(None) for a card without suit *)
SuitText(suit) ==
    CASE suit = "W" -> <<87>>
      [] suit = "C" -> <<67>>
      [] suit = "S" -> <<83>>
      [] suit = "P" -> <<80>>
      [] OTHER -> <<78, 111, 110, 101>>

(* Card.get_notation_code *)
GetNotationCode(card) ==
    IF card.card_type = "major" THEN card.value ELSE SuitText(card.suit) \o card.value

(* the format spec '<4': left-aligned, filled with spaces up to 4 characters *)
PadTo4(code) == code \o [i \in 1..(4 - Len(code)) |-> 32]

(* Card.get_notation: '[', the marker U+2193 or a space, the padded code, ']' *)
GetNotation(card, reversed) ==
    <<91>> \o <<IF reversed THEN 8595 ELSE 32>> \o PadTo4(GetNotationCode(card)) \o <<93>>

----------------------------------------------------------------------------
(* SemanticAnalyzer: a drawn card is a record of the Card and its          *)
(* is_reversed field                                                       *)

Drawn(card, reversed) == [card |-> card, is_reversed |-> reversed]

(* sum(1 for card in cards if ...), over the places of the cards counted *)
CountCards(places) == Cardinality(places)

court_values == { <<80, 97, 103, 101>>, <<75, 110, 105, 103, 104, 116>>, <<81, 117, 101, 101, 110>>, <<75, 105, 110, 103>> }

(* SemanticAnalyzer._is_court_card *)
IsCourtCard(card) ==
    IF card.card_type # "minor" THEN FALSE ELSE card.value \in court_values

(* SemanticAnalyzer._analyze_elemental_balance *)
AnalyzeElementalBalance(objs) ==
    LET suit_of == [fire |-> "W", water |-> "C", air |-> "S", earth |-> "P"]
        IsOf(element, o) == o.card.card_type = "minor" /\ o.card.suit = suit_of[element]
    IN  [element \in {"fire", "water", "air", "earth"} |->
            Cardinality({i \in 1..Len(objs) : IsOf(element, objs[i])})]

(* SemanticAnalyzer._analyze_suit_distribution *)
AnalyzeSuitDistribution(objs) ==
    LET suit_names == [Wands |-> "W", Cups |-> "C", Swords |-> "S", Pentacles |-> "P"]
        IsOf(suit_name, o) == o.card.card_type = "minor" /\ o.card.suit = suit_names[suit_name]
    IN  [suit_name \in {"Wands", "Cups", "Swords", "Pentacles"} |->
            Cardinality({i \in 1..Len(objs) : IsOf(suit_name, objs[i])})]

(* SemanticAnalyzer.analyze_card_combinations *)
AnalyzeCardCombinations(objs) ==
    LET IsMajor(o) == o.card.card_type = "major"
        IsMinor(o) == o.card.card_type = "minor"
        IsCourt(o) == o.card.card_type = "minor" /\ IsCourtCard(o.card)
        IsReversed(o) == o.is_reversed
    IN  [elemental_balance |-> AnalyzeElementalBalance(objs),
         major_arcana_count |-> CountCards({i \in 1..Len(objs) : IsMajor(objs[i])}),
         minor_arcana_count |-> CountCards({i \in 1..Len(objs) : IsMinor(objs[i])}),
         court_cards_count |-> CountCards({i \in 1..Len(objs) : IsCourt(objs[i])}),
         reversed_count |-> CountCards({i \in 1..Len(objs) : IsReversed(objs[i])}),
         suit_distribution |-> AnalyzeSuitDistribution(objs),
         card_count |-> Len(objs)]

(* An entry of a card condition's 'cards' list. Display names are kept as  *)
(* strings and every other text as code points, so an entry is either a    *)
(* name or a written text; no written text of the model spells a name.     *)
Named(name) == [name |-> name, text |-> <<>>]
Written(text) == [name |-> "", text |-> text]

(* card.name == req_card or card.get_notation() == req_card *)
EntryMatches(req_card, o) ==
    \/ req_card.name # "" /\ o.card.name = req_card.name
    \/ req_card.name = "" /\ GetNotation(o.card, o.is_reversed) = req_card.text

(* A card condition dict: its 'type' and the fields its type reads; the    *)
(* has_ fields tell whether min_count and max_count are given              *)
NoCardCondition ==
    [type |-> "none", group |-> <<>>, cards |-> <<>>, suits |-> <<>>, card_type |-> "none",
     has_min_count |-> FALSE, min_count |-> 0, has_max_count |-> FALSE, max_count |-> 0]

(* SemanticAnalyzer._card_condition_matches *)
CardConditionMatches(card_condition, objs, semantic_groups) ==
    CASE card_condition.type = "in_group" ->
            IF card_condition.group \in DictKeys(semantic_groups)
            THEN LET group_cards == DictGet(semantic_groups, card_condition.group)
                 IN  \A k \in 1..Len(card_condition.cards) :
                        \E g \in 1..Len(group_cards) :
                            EntryMatches(card_condition.cards[k], group_cards[g])
            ELSE FALSE
      [] card_condition.type = "anywhere" ->
            \E k \in 1..Len(card_condition.cards) : \E i \in 1..Len(objs) :
                EntryMatches(card_condition.cards[k], objs[i])
      [] card_condition.type = "suit_present" ->
            \E k \in 1..Len(card_condition.suits) : \E i \in 1..Len(objs) :
                /\ objs[i].card.card_type = "minor"
                /\ objs[i].card.suit # "None"
                /\ objs[i].card.suit = card_condition.suits[k]
      [] card_condition.type = "card_type_count" ->
            LET min_count == IF card_condition.has_min_count THEN card_condition.min_count ELSE 1
                max_count == IF card_condition.has_max_count THEN card_condition.max_count
                             ELSE Len(objs)
                type_count == Cardinality({i \in 1..Len(objs) :
                                  objs[i].card.card_type = card_condition.card_type})
            IN  min_count <= type_count /\ type_count <= max_count
      [] card_condition.type = "not_present" ->
            ~ \E k \in 1..Len(card_condition.cards) : \E i \in 1..Len(objs) :
                  EntryMatches(card_condition.cards[k], objs[i])
      [] OTHER -> FALSE

(* A rule's 'conditions' dict: the keys it has and their values;           *)
(* elemental_balance is the dict as pairs of element and minimum           *)
NoConditions ==
    [keys |-> {}, cards |-> <<>>, major_arcana_min |-> 0, major_arcana_max |-> 0,
     minor_arcana_min |-> 0, court_cards_min |-> 0, reversed_min |-> 0, reversed_max |-> 0,
     elemental_balance |-> <<>>, card_type_count |-> NoCardCondition,
     suit_present |-> NoCardCondition]

(* A guidance rule: rule.get('conditions', {}) and rule.get('guidance', '') *)
Rule(conditions, guidance_text) == [conditions |-> conditions, guidance |-> guidance_text]

(* _rule_matches, the block of conditions['cards'] *)
CardConditionsHold(conditions, objs, semantic_groups) ==
    "cards" \in conditions.keys
    => \A k \in 1..Len(conditions.cards) :
          CardConditionMatches(conditions.cards[k], objs, semantic_groups)

(* the bounds with conditions.get(key, 0) in place of the test for the key *)
AnalysisBoundsDefaulted(conditions, analysis) ==
    /\ ~(analysis.major_arcana_count < conditions.major_arcana_min)
    /\ ~(analysis.major_arcana_count > conditions.major_arcana_max)
    /\ ~(analysis.minor_arcana_count < conditions.minor_arcana_min)
    /\ ~(analysis.court_cards_count < conditions.court_cards_min)
    /\ ~(analysis.reversed_count < conditions.reversed_min)
    /\ ~(analysis.reversed_count > conditions.reversed_max)

(* _rule_matches, the bounds on the counts of the analysis *)
AnalysisBoundsHold(conditions, analysis) ==
    /\ "major_arcana_min" \in conditions.keys
       => ~(analysis.major_arcana_count < conditions.major_arcana_min)
    /\ "major_arcana_max" \in conditions.keys
       => ~(analysis.major_arcana_count > conditions.major_arcana_max)
    /\ "minor_arcana_min" \in conditions.keys
       => ~(analysis.minor_arcana_count < conditions.minor_arcana_min)
    /\ "court_cards_min" \in conditions.keys
       => ~(analysis.court_cards_count < conditions.court_cards_min)
    /\ "reversed_min" \in conditions.keys
       => ~(analysis.reversed_count < conditions.reversed_min)
    /\ "reversed_max" \in conditions.keys
       => ~(analysis.reversed_count > conditions.reversed_max)

(* analysis['elemental_balance'].get(element, 0) *)
ElementCount(analysis, element) ==
    IF element \in DOMAIN analysis.elemental_balance
    THEN analysis.elemental_balance[element] ELSE 0

(* _rule_matches, the block of conditions['elemental_balance'] *)
ElementalBalanceHolds(conditions, analysis) ==
    "elemental_balance" \in conditions.keys
    => \A k \in 1..Len(conditions.elemental_balance) :
          ~(ElementCount(analysis, conditions.elemental_balance[k][1])
                < conditions.elemental_balance[k][2])

(* _rule_matches without the block of elemental_balance *)
RuleMatchesWithoutElements(rule, objs, analysis, semantic_groups) ==
    /\ CardConditionsHold(rule.conditions, objs, semantic_groups)
    /\ AnalysisBoundsHold(rule.conditions, analysis)

(* SemanticAnalyzer._rule_matches *)
RuleMatches(rule, objs, analysis, semantic_groups) ==
    /\ CardConditionsHold(rule.conditions, objs, semantic_groups)
    /\ AnalysisBoundsHold(rule.conditions, analysis)
    /\ ElementalBalanceHolds(rule.conditions, analysis)

MajorArcanaDominance ==
    <<45, 32, 42, 42, 77, 97, 106, 111, 114, 32, 65, 114, 99, 97, 110, 97,
          32, 68, 111, 109, 105, 110, 97, 110, 99, 101, 42, 42, 58, 32, 84,
          104, 105, 115, 32, 114, 101, 97, 100, 105, 110, 103, 32, 99, 97,
          114, 114, 105, 101, 115, 32, 115, 105, 103, 110, 105, 102, 105,
          99, 97, 110, 116, 32, 115, 112, 105, 114, 105, 116, 117, 97, 108,
          32, 111, 114, 32, 107, 97, 114, 109, 105, 99, 32, 119, 101, 105,
          103, 104, 116>>

ManyReversedCards ==
    <<45, 32, 42, 42, 77, 97, 110, 121, 32, 82, 101, 118, 101, 114, 115,
          101, 100, 32, 67, 97, 114, 100, 115, 42, 42, 58, 32, 69, 120,
          112, 101, 99, 116, 32, 99, 104, 97, 108, 108, 101, 110, 103, 101,
          115, 44, 32, 100, 101, 108, 97, 121, 115, 44, 32, 111, 114, 32,
          105, 110, 116, 101, 114, 110, 97, 108, 32, 98, 108, 111, 99, 107,
          97, 103, 101, 115>>

(* the loop over self.guidance_rules from rule k on *)
RECURSIVE ApplyRules(_, _, _, _, _, _)
ApplyRules(guidance_rules, k, objs, analysis, semantic_groups, lines) ==
    IF k > Len(guidance_rules) THEN lines
    ELSE LET rule == guidance_rules[k]
             guidance_text == ResolveVariables(rule.guidance)
         IN  ApplyRules(guidance_rules, k + 1, objs, analysis, semantic_groups,
                 IF RuleMatches(rule, objs, analysis, semantic_groups) /\ guidance_text # <<>>
                 THEN Append(lines, <<45, 32>> \o guidance_text)
                 ELSE lines)

(* the two general insights appended after the rules *)
GeneralInsights(objs, analysis) ==
    (IF analysis.major_arcana_count > Len(objs) \div 2 THEN <<MajorArcanaDominance>> ELSE <<>>)
    \o (IF analysis.reversed_count > Len(objs) \div 2 THEN <<ManyReversedCards>> ELSE <<>>)

(* generate_guidance stopping at the first rule that matches *)
GenerateGuidanceFirstMatch(guidance_rules, objs, semantic_groups) ==
    LET analysis == AnalyzeCardCombinations(objs)
        lines == ApplyRules(guidance_rules, 1, objs, analysis, semantic_groups, <<>>)
    IN  (IF lines = <<>> THEN <<>> ELSE <<lines[1]>>) \o GeneralInsights(objs, analysis)

(* SemanticAnalyzer.generate_guidance: the list of lines returned *)
GenerateGuidance(guidance_rules, objs, semantic_groups) ==
    LET analysis == AnalyzeCardCombinations(objs)
    IN  ApplyRules(guidance_rules, 1, objs, analysis, semantic_groups, <<>>)
        \o GeneralInsights(objs, analysis)

(* A semantic_config dict with the entries the analyzer reads;            *)
(* semantic_groups is the dict in insertion order                          *)
GuidanceConfig(keys, semantics, semantic_groups, guidance_rules) ==
    [keys |-> keys, semantics |-> semantics, semantic_groups |-> semantic_groups,
     guidance_rules |-> guidance_rules]

(* An entry of semantic_groups: its key and the group_info dict *)
GroupInfo(name, has_description, description, positions) ==
    [name |-> name, has_description |-> has_description, description |-> description,
     has_positions |-> TRUE, positions |-> positions]

(* d[key] = value *)
DictSet(d, key, value) ==
    IF key \in DictKeys(d)
    THEN [i \in 1..Len(d) |-> IF d[i][1] = key THEN <<key, value>> ELSE d[i]]
    ELSE Append(d, <<key, value>>)

(* d.update(other), from entry k of other on *)
RECURSIVE DictUpdate(_, _, _)
DictUpdate(d, other, k) ==
    IF k > Len(other) THEN d
    ELSE DictUpdate(DictSet(d, other[k][1], other[k][2]), other, k + 1)

(* the cards found at the positions of a group, in the order of the list *)
CardsAtPositions(layout, drawn, positions) ==
    SelectSeq([k \in 1..Len(positions) |-> GetCardAtPosition(layout, drawn, positions[k])],
              LAMBDA card : card # 0)

(* the loop over custom_groups from entry k on *)
RECURSIVE CustomGroups(_, _, _, _, _)
CustomGroups(layout, drawn, custom_groups, k, result_groups) ==
    IF k > Len(custom_groups) THEN result_groups
    ELSE LET group_info == custom_groups[k]
             group_cards == CardsAtPositions(layout, drawn, group_info.positions)
             description == IF group_info.has_description THEN group_info.description
                            ELSE group_info.name
         IN  CustomGroups(layout, drawn, custom_groups, k + 1,
                 IF group_info.has_positions /\ group_cards # <<>>
                 THEN DictSet(result_groups, description, group_cards)
                 ELSE result_groups)

(* SemanticAdapter.get_semantic_groups; the analyzer exists when the       *)
(* semantic_config is not empty                                            *)
GetSemanticGroups(layout, semantics, drawn, semantic_config) ==
    IF semantic_config.keys # {} /\ "semantic_groups" \in semantic_config.keys
    THEN DictUpdate(CustomGroups(layout, drawn, semantic_config.semantic_groups, 1, <<>>),
                    GroupCardsBySemantic(layout, semantics, drawn), 1)
    ELSE GroupCardsBySemantic(layout, semantics, drawn)

----------------------------------------------------------------------------
(* resolve_card_codes *)

(* the characters str.strip() removes (those of ASCII) *)
Whitespace == {9, 10, 11, 12, 13, 28, 29, 30, 31, 32}

(* str.strip() *)
RECURSIVE Strip(_)
Strip(s) ==
    IF s = <<>> THEN s
    ELSE IF s[1] \in Whitespace THEN Strip(Tail(s))
    ELSE IF s[Len(s)] \in Whitespace THEN Strip(SubSeq(s, 1, Len(s) - 1))
    ELSE s

(* str.split(sep) for a separator of one character *)
RECURSIVE SplitOn(_, _)
SplitOn(s, sep) ==
    IF sep \notin Range(s) THEN <<s>>
    ELSE <<SubSeq(s, 1, IndexOf(s, sep) - 1)>>
         \o SplitOn(SubSeq(s, IndexOf(s, sep) + 1, Len(s)), sep)

(* [code.strip() for code in codes.split(',') if code.strip()] *)
CodeList(codes) ==
    LET pieces == SplitOn(codes, 44)
    IN  SelectSeq([i \in 1..Len(pieces) |-> Strip(pieces[i])], LAMBDA code : code # <<>>)

(* str.startswith, str.endswith *)
StartsWith(s, prefix) == Len(s) >= Len(prefix) /\ SubSeq(s, 1, Len(prefix)) = prefix
EndsWith(s, suffix) ==
    Len(s) >= Len(suffix) /\ SubSeq(s, Len(s) - Len(suffix) + 1, Len(s)) = suffix

(* the underscore notation: 'C_Q' becomes 'CQ' *)
CleanUnderscore(code) ==
    IF 95 \in Range(code) /\ Len(code) = 3 /\ code[2] = 95 THEN <<code[1], code[3]>> ELSE code

(* an entry with the bracket and marker of a reversed card taken for those *)
(* of an upright one                                                       *)
ParseCodeUpright(code) ==
    IF (StartsWith(code, <<91, 8595>>) \/ StartsWith(code, <<91, 32>>)) /\ EndsWith(code, <<93>>)
    THEN [is_reversed |-> FALSE,
          code |-> CleanUnderscore(Strip(SubSeq(code, 3, Len(code) - 1)))]
    ELSE [is_reversed |-> FALSE, code |-> CleanUnderscore(code)]

(* the body of the loop up to the lookup: the reversal notation is taken   *)
(* off, then the underscore                                                *)
ParseCode(code) ==
    IF StartsWith(code, <<91, 8595>>) /\ EndsWith(code, <<93>>)
    THEN [is_reversed |-> TRUE,
          code |-> CleanUnderscore(Strip(SubSeq(code, 3, Len(code) - 1)))]
    ELSE IF StartsWith(code, <<91, 32>>) /\ EndsWith(code, <<93>>)
    THEN [is_reversed |-> FALSE,
          code |-> CleanUnderscore(Strip(SubSeq(code, 3, Len(code) - 1)))]
    ELSE [is_reversed |-> FALSE, code |-> CleanUnderscore(code)]

(* card_dict of Deck().cards: the index of the last card of the deck with  *)
(* this notation code, 0 when the code is no key                           *)
CardDict(code) ==
    LET having == {i \in 1..Len(CreateDeck) : GetNotationCode(CreateDeck[i]) = code}
    IN  IF having = {} THEN 0 ELSE CHOOSE i \in having : \A j \in having : j <= i

(* the loop over code_list from entry k on, which skips an entry that is   *)
(* no key of card_dict                                                     *)
RECURSIVE ResolveCodeListSkipping(_, _, _)
ResolveCodeListSkipping(code_list, k, resolved_cards) ==
    IF k > Len(code_list) THEN [status |-> "ok", cards |-> resolved_cards]
    ELSE LET parsed == ParseCode(code_list[k])
         IN  ResolveCodeListSkipping(code_list, k + 1,
                 IF CardDict(parsed.code) # 0
                 THEN Append(resolved_cards,
                             Drawn(CreateDeck[CardDict(parsed.code)], parsed.is_reversed))
                 ELSE resolved_cards)

(* the loop over code_list from entry k on: a copy of the card found, with *)
(* the orientation of the entry, or ValueError                             *)
RECURSIVE ResolveCodeList(_, _, _)
ResolveCodeList(code_list, k, resolved_cards) ==
    IF k > Len(code_list) THEN [status |-> "ok", cards |-> resolved_cards]
    ELSE LET parsed == ParseCode(code_list[k])
         IN  IF CardDict(parsed.code) # 0
             THEN ResolveCodeList(code_list, k + 1,
                      Append(resolved_cards,
                             Drawn(CreateDeck[CardDict(parsed.code)], parsed.is_reversed)))
             ELSE [status |-> "ValueError", cards |-> <<>>]

(* The Card objects resolve_card_codes builds, as references after the     *)
(* objects that exist: the cards of its temporary Deck(), then one new     *)
(* Card per card of the list returned                                      *)
TemporaryDeck(flags) == [i \in 1..Len(CreateDeck) |-> Len(flags) + i]

(* resolve_card_codes looking the codes up in the cards of the deck in     *)
(* use and returning those cards                                           *)
ResolvedObjectsOfDeck(deck_cards, flags, resolved_cards) ==
    [k \in 1..Len(resolved_cards) |-> deck_cards[((k - 1) % Len(deck_cards)) + 1]]

ResolvedObjects(deck_cards, flags, resolved_cards) ==
    [k \in 1..Len(resolved_cards) |-> Len(flags) + Len(CreateDeck) + k]

(* Card.is_reversed of every object once resolve_card_codes has returned   *)
(* these objects for these cards                                           *)
FlagsAfterLookup(flags, objects, resolved_cards) ==
    LET size == Max(Len(flags),
                    Max(Len(flags) + Len(CreateDeck),
                        IF objects = <<>> THEN 0
                        ELSE CHOOSE m \in Range(objects) : \A o \in Range(objects) : o <= m))
    IN  [o \in 1..size |->
            IF \E k \in 1..Len(objects) : objects[k] = o
            THEN resolved_cards[CHOOSE k \in 1..Len(objects) :
                                   objects[k] = o /\ \A j \in 1..Len(objects) :
                                                        objects[j] = o => j <= k].is_reversed
            ELSE IF o <= Len(flags) THEN flags[o] ELSE FALSE]

(* resolve_card_codes that drops the entries it cannot resolve *)
ResolveCardCodesSkipping(codes) ==
    IF codes = <<>> THEN [status |-> "ok", cards |-> <<>>]
    ELSE ResolveCodeListSkipping(CodeList(codes), 1, <<>>)

(* resolve_card_codes: the list returned, or the exception raised *)
ResolveCardCodes(codes) ==
    IF codes = <<>> THEN [status |-> "ok", cards |-> <<>>]
    ELSE ResolveCodeList(CodeList(codes), 1, <<>>)

----------------------------------------------------------------------------
(* Inputs *)


(* (timestamp, question, invocation, random_bytes): "1"/"a"/"b"/"i" *)
SeedArgs ==
    { <<<<49>>, <<97>>, None, 0>>,
      <<<<49>>, <<97>>, <<105>>, 0>>,
      <<<<49>>, <<98>>, None, 0>>,
      <<<<49>>, <<97>>, None, 1>> }

(* outcomes of token_bytes(1).hex() the model distinguishes: "00", "ff" *)
EntropyTexts == { <<48, 48>>, <<102, 102>> }

EntropyFor(random_bytes) == IF random_bytes > 0 THEN EntropyTexts ELSE {<<>>}

LayoutInputs ==
    { Matrix(<<>>),                                       \* []
      Flat(<<2, 1, 3>>),                                  \* [2, 1, 3]
      Matrix(<< <<2, 1, 3>> >>),                          \* SPREADS['3-card']
      Matrix(<< <<0, 5, 0>>, <<2, 1, 3>>, <<0, 4, 0>> >>),  \* SPREADS['cross']
      Matrix(<< <<1, 1>> >>),                             \* a repeated position
      Matrix(<< <<0, 7>>, <<3, 0>> >>) }                  \* non-contiguous positions

NoCall == [op |-> "none", seed_args |-> <<>>, entropy |-> <<>>, layout |-> Matrix(<<>>),
           allow_reversed |-> FALSE, count |-> 0]
NoResult == [status |-> "none", cards |-> <<>>, seed |-> [hi |-> 0, lo |-> 0]]
NoRng == [hi |-> 0, lo |-> 0, calls |-> <<>>]

----------------------------------------------------------------------------
(* Inputs of the semantic adapter *)

MaxSemCards == 3        \* an adapter is given the first 0..MaxSemCards drawn cards

(* the drawn cards handed to the adapter: references in draw order *)
DrawnOrder == <<3, 1, 4, 2, 5, 6>>
DrawnInputs == {SubSeq(DrawnOrder, 1, n) : n \in 0..MaxSemCards}

(* normalized layouts *)
SemLayouts ==
    { <<>>,
      << <<2, 1, 3>> >>,
      << <<1, 1>> >>,
      << <<7, 3>> >>,
      << <<0, 2>>, <<1, 0>> >>,
      << <<1>>, <<2>> >> }

(* cells of a semantics matrix: null, "", "Aaa", "Zzz", "${fire}" *)
SemCells == { None, <<>>, <<65, 97, 97>>, <<90, 122, 122>>, <<36, 123, 102, 105, 114, 101, 125>> }

(* semantics matrices: none, an empty row, every row of 1..3 cells, and    *)
(* some matrices of two rows                                               *)
SemanticsInputs ==
    { <<>>, << <<>> >> }
    \cup { << <<a>> >> : a \in SemCells }
    \cup { << <<a, b>> >> : a \in SemCells, b \in SemCells }
    \cup { << <<a, b, c>> >> : a \in SemCells \ {None}, b \in SemCells \ {None}, c \in SemCells \ {None} }
    \cup { << <<a>>, <<b>> >> : a \in SemCells, b \in SemCells }
    \cup { << <<<<>>, a>>, <<b, <<>>>> >> : a \in SemCells, b \in SemCells }
    \cup { << <<a, a>>, <<a>> >> : a \in SemCells }

(* how a matrix reaches the constructor: as the semantics argument or in  *)
(* semantic_config; a config may also hold no matrix                       *)
AdapterArgs(matrix) ==
    { <<matrix, NoConfig>>,
      <<<<>>, Config({"semantics"}, matrix)>>,
      <<<<>>, Config({"guidance_rules"}, <<>>)>> }

NoAdapter == [status |-> "none", layout |-> <<>>, cards |-> <<>>, semantics |-> <<>>,
              semantic_config |-> NoConfig, given |-> <<>>, from_config |-> FALSE]
NoOutput == [op |-> "none", status |-> "none", value |-> <<>>, position |-> 0]
NoRun == [status |-> "none"]

----------------------------------------------------------------------------
(* Inputs of the analyzer *)

MaxGuideCards == 3      \* readings of 0..MaxGuideCards cards are analysed
MaxRules == 2           \* guidance_rules holds 0..MaxRules rules

(* The Card objects readings are made of: cards built by hand as in the   *)
(* test-suite, and the Knight of Wands and Queen of Cups of the built-in   *)
(* deck; some were drawn reversed                                          *)
GuideObjects ==
  << Drawn(CustomCardData[1], FALSE),
     Drawn(CustomCardData[5], TRUE),
     Drawn(CustomCardData[3], FALSE),
     Drawn(CustomCardData[2], TRUE),
     Drawn(CreateDeck[34], FALSE),
     Drawn(CreateDeck[49], TRUE) >>

(* the objects a list of references holds *)
Objects(refs) == [i \in 1..Len(refs) |-> GuideObjects[refs[i]]]
GroupObjects(groups) == [i \in 1..Len(groups) |-> <<groups[i][1], Objects(groups[i][2])>>]

(* the lists of cards drawn: references in ascending order *)
GuideDrawnInputs ==
    {SortInts(refs) : refs \in {r \in SUBSET (1..Len(GuideObjects)) : Cardinality(r) <= MaxGuideCards}}

fire_group == <<102, 105, 114, 101, 95, 103, 114, 111, 117, 112>>
FireEnergyGroup == <<70, 105, 114, 101, 32, 101, 110, 101, 114, 103, 121, 32, 103, 114, 111, 117, 112>>

(* card conditions *)
Anywhere(entries) == [NoCardCondition EXCEPT !.type = "anywhere", !.cards = entries]
NotPresent(entries) == [NoCardCondition EXCEPT !.type = "not_present", !.cards = entries]
InGroup(group, entries) ==
    [NoCardCondition EXCEPT !.type = "in_group", !.group = group, !.cards = entries]
SuitPresent(suit_letters) == [NoCardCondition EXCEPT !.type = "suit_present", !.suits = suit_letters]
CardTypeCountMin(card_type, min_count) ==
    [NoCardCondition EXCEPT !.type = "card_type_count", !.card_type = card_type,
                            !.has_min_count = TRUE, !.min_count = min_count]
CardTypeCountRange(card_type, min_count, max_count) ==
    [NoCardCondition EXCEPT !.type = "card_type_count", !.card_type = card_type,
                            !.has_min_count = TRUE, !.min_count = min_count,
                            !.has_max_count = TRUE, !.max_count = max_count]

(* The rules of the model, the ones of the test-suite first; the guidance  *)
(* texts are "A", "B ${fire}", "C", ..., and one rule has no text          *)
GuidanceRules ==
  << Rule([NoConditions EXCEPT !.keys = {"major_arcana_min", "elemental_balance"},
                               !.major_arcana_min = 2,
                               !.elemental_balance = << <<"fire", 1>> >>], <<65>>),
     Rule(NoConditions, <<66, 32, 36, 123, 102, 105, 114, 101, 125>>),
     Rule([NoConditions EXCEPT !.keys = {"cards"},
                               !.cards = <<Anywhere(<<Named("The Tower"), Named("Death")>>)>>], <<67>>),
     Rule([NoConditions EXCEPT !.keys = {"cards"},
                               !.cards = <<Anywhere(<<Written(<<88, 86, 73>>), Written(<<87, 78>>)>>)>>], <<68>>),
     Rule([NoConditions EXCEPT !.keys = {"cards"},
                               !.cards = <<InGroup(fire_group, <<Named("The Tower")>>)>>], <<69>>),
     Rule([NoConditions EXCEPT !.keys = {"court_cards_min"}, !.court_cards_min = 1], <<70>>),
     Rule([NoConditions EXCEPT !.keys = {"card_type_count"},
                               !.card_type_count = CardTypeCountMin("minor", 2)], <<71>>),
     Rule([NoConditions EXCEPT !.keys = {"cards"},
                               !.cards = <<CardTypeCountRange("minor", 1, 2)>>], <<72>>),
     Rule([NoConditions EXCEPT !.keys = {"reversed_max", "minor_arcana_min"},
                               !.reversed_max = 0, !.minor_arcana_min = 1], <<73>>),
     Rule([NoConditions EXCEPT !.keys = {"cards", "major_arcana_max", "reversed_min"},
                               !.cards = <<NotPresent(<<Named("The Tower")>>),
                                           SuitPresent(<<"C", "S">>)>>,
                               !.major_arcana_max = 1, !.reversed_min = 1], <<74>>),
     Rule([NoConditions EXCEPT !.keys = {"elemental_balance"},
                               !.elemental_balance = << <<"water", 1>>, <<"spirit", 1>> >>], <<75>>),
     Rule([NoConditions EXCEPT !.keys = {"cards"},
                               !.cards = <<Anywhere(<<Written(<<91, 32, 88, 86, 73, 32, 93>>)>>),
                                           CardTypeCountMin("major", 1)>>], <<76>>),
     Rule([NoConditions EXCEPT !.keys = {"minor_arcana_min"}, !.minor_arcana_min = 1], <<>>) >>

Reverse(s) == [i \in 1..Len(s) |-> s[Len(s) + 1 - i]]

(* guidance_rules: runs of 0..MaxRules rules of the list above, in its     *)
(* order or in the opposite order                                          *)
RuleLists ==
    {SubSeq(GuidanceRules, a, b) :
        a \in 1..Len(GuidanceRules), b \in 0..Len(GuidanceRules)}
    \cup {SubSeq(Reverse(GuidanceRules), a, b) :
        a \in 1..Len(GuidanceRules), b \in 0..Len(GuidanceRules)}

(* The semantic_config dicts: rules only; the spread of the test-suite     *)
(* with a described group; a group without description                     *)
ConfigInputs ==
    UNION {{ GuidanceConfig({"guidance_rules"}, <<>>, <<>>, rules),
             GuidanceConfig({"semantics", "semantic_groups", "guidance_rules"},
                            << << <<36, 123, 102, 105, 114, 101, 125>>, <<36, 123, 119, 97, 116, 101, 114, 125>>, <<36, 123, 97, 105, 114, 125>> >> >>,
                            << GroupInfo(fire_group, TRUE, FireEnergyGroup, <<1>>) >>, rules),
             GuidanceConfig({"semantic_groups", "guidance_rules"}, <<>>,
                            << GroupInfo(fire_group, FALSE, <<>>, <<1>>) >>, rules) } :
           rules \in {r \in RuleLists : Len(r) <= MaxRules}}

(* the semantic_groups argument of SemanticAnalyzer.generate_guidance:     *)
(* none, as the test-suite passes, or a group holding the first card       *)
GroupsInputs(refs) ==
    {<<>>} \cup (IF refs = <<>> THEN {} ELSE {<< <<fire_group, <<refs[1]>>>> >>})

GuideLayouts == { << <<1, 2, 3>> >>, << <<1>>, <<2>> >> }

NoAnalyzer == [status |-> "none", cards |-> <<>>]
NoGuidance == [op |-> "none"]
NoNotation == [op |-> "none"]
NoResolved == [op |-> "none"]

(* most entries of one CSV text *)
MaxCodes == 3

(* the entries the CSV texts are made of: codes of the deck, plain, with   *)
(* blanks around, with an underscore, bracketed as a reversed card; texts  *)
(* that are no code of the deck; the empty entry                           *)
CodeItems ==
    << <<88, 86, 73>>, <<32, 87, 51, 32>>, <<67, 95, 81>>, <<91, 8595, 88, 86, 73, 73, 73, 93>>, <<90, 90>>, <<119, 51>>, <<>> >>

(* the lists of entries, as indexes into CodeItems *)
CodeLists == UNION {[1..n -> 1..Len(CodeItems)] : n \in 0..MaxCodes}

(* ','.join of the entries *)
RECURSIVE JoinItems(_, _)
JoinItems(items, k) ==
    IF k > Len(items) THEN <<>>
    ELSE (IF k > 1 THEN <<44>> ELSE <<>>) \o CodeItems[items[k]] \o JoinItems(items, k + 1)

----------------------------------------------------------------------------
(* The state machine of a TarotDivination and its Deck *)

(* TarotDivination.__init__ / Deck.__init__ *)
Init ==
    /\ deck_path \in 1..MaxCustomDeck
    /\ cards = [i \in 1..Len(DeckCards(deck_path)) |-> i]
    /\ shuffled = <<>>
    /\ is_reversed = [i \in 1..Len(DeckCards(deck_path)) |-> FALSE]
    /\ was_shuffled = FALSE
    /\ returned = {}
    /\ call = NoCall
    /\ result = NoResult
    /\ run1 = NoRun
    /\ adapter = NoAdapter
    /\ output = NoOutput
    /\ analyzer = NoAnalyzer
    /\ guidance = NoGuidance
    /\ notation = NoNotation
    /\ resolved = NoResolved
    /\ last_rng = NoRng
    /\ twin_rng = NoRng
    /\ pending = <<>>

(* create_seed followed by draw_cards_for_reading, as perform_reading,     *)
(* perform_reading_json and perform_reading_enhanced run them              *)
PerformReading(args, entropy, spread_layout, allow_reversed) ==
    LET seed == CreateSeed(args[1], args[2], args[3], args[4], entropy)
        r == DrawCardsForReading(cards, is_reversed, seed, spread_layout, allow_reversed)
    IN  /\ shuffled' = r.shuffled
        /\ is_reversed' = r.is_reversed
        /\ was_shuffled' = TRUE
        /\ returned' = {}
        /\ call' = [op |-> "draw_cards_for_reading", seed_args |-> args, entropy |-> entropy,
                    layout |-> spread_layout, allow_reversed |-> allow_reversed,
                    count |-> NormalizeSpreadLayout(spread_layout).needed_cards]
        /\ result' = [status |-> r.status, cards |-> r.cards, seed |-> seed]
        /\ last_rng' = r.rng
        /\ UNCHANGED <<deck_path, cards, sem_vars, guide_vars, code_vars, twin_rng, pending>>

(* Deck.shuffle_and_assign_reversals called on the deck with a new         *)
(* generator; Deck.shuffle is the call with allow_reversed = FALSE         *)
Shuffle(args, allow_reversed) ==
    LET seed == CreateSeed(args[1], args[2], args[3], 0, <<>>)
        sh == ShuffleAndAssignReversals(cards, is_reversed, RngInit(seed), allow_reversed)
    IN  /\ shuffled' = sh.shuffled
        /\ is_reversed' = sh.is_reversed
        /\ was_shuffled' = TRUE
        /\ returned' = {}
        /\ call' = [op |-> "shuffle_and_assign_reversals", seed_args |-> args, entropy |-> <<>>,
                    layout |-> Matrix(<<>>), allow_reversed |-> allow_reversed, count |-> 0]
        /\ result' = [status |-> "ok", cards |-> <<>>, seed |-> seed]
        /\ last_rng' = sh.rng
        /\ UNCHANGED <<deck_path, cards, run1, sem_vars, guide_vars, code_vars, twin_rng, pending>>

(* Deck.draw_cards called on the deck *)
DrawCardsCall(count) ==
    LET r == DrawCards(shuffled, count)
    IN  /\ returned' = returned \cup Range(result.cards)
        /\ call' = [op |-> "draw_cards", seed_args |-> <<>>, entropy |-> <<>>,
                    layout |-> Matrix(<<>>), allow_reversed |-> FALSE, count |-> count]
        /\ result' = [status |-> r.status, cards |-> r.cards, seed |-> [hi |-> 0, lo |-> 0]]
        /\ UNCHANGED <<deck_path, cards, shuffled, is_reversed, was_shuffled, run1, sem_vars, guide_vars, code_vars, eng_vars>>

Reading ==
    \E args \in SeedArgs, spread_layout \in LayoutInputs, allow_reversed \in BOOLEAN :
      \E entropy \in EntropyFor(args[4]) :
        PerformReading(args, entropy, spread_layout, allow_reversed) /\ UNCHANGED run1

Next ==
    \/ Reading
    \/ \E args \in {a \in SeedArgs : a[4] = 0}, allow_reversed \in BOOLEAN :
          Shuffle(args, allow_reversed)
    \/ \E count \in 0..MaxDraw : DrawCardsCall(count)

Spec == Init /\ [][Next]_vars

----------------------------------------------------------------------------
(* Readings repeated on one TarotDivination: what the reading before the  *)
(* last one returned is kept, as a caller comparing two runs keeps it      *)

(* what a caller observes when draw_cards_for_reading returns *)
Orientations(refs, flags) == [i \in 1..Len(refs) |-> flags[refs[i]]]

Observed(c, res, deck_shuffled, flags) ==
    [status |-> "kept", seed_args |-> c.seed_args, layout |-> c.layout,
     allow_reversed |-> c.allow_reversed, seed |-> res.seed,
     order |-> deck_shuffled, orientations |-> Orientations(deck_shuffled, flags),
     drawn |-> res.cards, drawn_orientations |-> Orientations(res.cards, flags)]

TwiceLayouts == { Flat(<<2, 1, 3>>), Matrix(<< <<0, 7>>, <<3, 0>> >>) }

ReadingKept ==
    \E args \in SeedArgs, spread_layout \in TwiceLayouts, allow_reversed \in BOOLEAN :
      \E entropy \in EntropyFor(args[4]) :
        /\ PerformReading(args, entropy, spread_layout, allow_reversed)
        /\ run1' = IF call.op = "draw_cards_for_reading"
                   THEN Observed(call, result, shuffled, is_reversed)
                   ELSE NoRun

NextTwice == ReadingKept

SpecTwice == Init /\ [][NextTwice]_vars

----------------------------------------------------------------------------
(* The state machine of one SemanticAdapter and of the renderer *)

InitSem ==
    /\ deck_path = 1
    /\ cards = <<1>>
    /\ shuffled = <<>>
    /\ is_reversed = <<FALSE>>
    /\ was_shuffled = FALSE
    /\ returned = {}
    /\ call = NoCall
    /\ result = NoResult
    /\ run1 = NoRun
    /\ adapter = NoAdapter
    /\ output = NoOutput
    /\ analyzer = NoAnalyzer
    /\ guidance = NoGuidance
    /\ notation = NoNotation
    /\ resolved = NoResolved
    /\ last_rng = NoRng
    /\ twin_rng = NoRng
    /\ pending = <<>>

(* SemanticAdapter(layout, cards, semantics, semantic_config) *)
NewAdapter(layout, drawn, semantics, semantic_config) ==
    /\ adapter = NoAdapter
    /\ adapter' = SemanticAdapterInit(layout, drawn, semantics, semantic_config)
    /\ output' = NoOutput
    /\ UNCHANGED <<deck_vars, guide_vars, code_vars, run1, eng_vars>>

(* SpreadRenderer.render_spread(cards, layout), on the cards and layout    *)
(* the adapter is built from                                               *)
RenderSpreadCall ==
    /\ adapter.status # "none"
    /\ LET r == RenderSpread(adapter.cards, adapter.layout)
       IN  output' = [op |-> "render_spread", status |-> r.status, value |-> r.rows, position |-> 0]
    /\ UNCHANGED <<deck_vars, guide_vars, code_vars, run1, adapter, eng_vars>>

BuildCardIndexToSemanticCall ==
    /\ adapter.status = "ok"
    /\ output' = [op |-> "_build_card_index_to_semantic", status |-> "ok",
                  value |-> BuildCardIndexToSemantic(adapter.layout, adapter.semantics),
                  position |-> 0]
    /\ UNCHANGED <<deck_vars, guide_vars, code_vars, run1, adapter, eng_vars>>

GroupCardsBySemanticCall ==
    /\ adapter.status = "ok"
    /\ output' = [op |-> "_group_cards_by_semantic", status |-> "ok",
                  value |-> GroupCardsBySemantic(adapter.layout, adapter.semantics, adapter.cards),
                  position |-> 0]
    /\ UNCHANGED <<deck_vars, guide_vars, code_vars, run1, adapter, eng_vars>>

RenderSemanticLegendCall ==
    /\ adapter.status = "ok"
    /\ output' = [op |-> "render_semantic_legend", status |-> "ok",
                  value |-> RenderSemanticLegend(adapter.layout, adapter.semantics, adapter.cards),
                  position |-> 0]
    /\ UNCHANGED <<deck_vars, guide_vars, code_vars, run1, adapter, eng_vars>>

GetCardAtPositionCall(position) ==
    /\ adapter.status = "ok"
    /\ output' = [op |-> "_get_card_at_position", status |-> "ok",
                  value |-> GetCardAtPosition(adapter.layout, adapter.cards, position),
                  position |-> position]
    /\ UNCHANGED <<deck_vars, guide_vars, code_vars, run1, adapter, eng_vars>>

PositionInputs == {1, 2, 3, 7}

NextSem ==
    \/ \E layout \in SemLayouts, drawn \in DrawnInputs, matrix \in SemanticsInputs :
          \E a \in AdapterArgs(matrix) : NewAdapter(layout, drawn, a[1], a[2])
    \/ RenderSpreadCall
    \/ BuildCardIndexToSemanticCall
    \/ GroupCardsBySemanticCall
    \/ RenderSemanticLegendCall
    \/ \E position \in PositionInputs : GetCardAtPositionCall(position)

SpecSem == InitSem /\ [][NextSem]_vars

----------------------------------------------------------------------------
(* The state machine of one reading under analysis: a SemanticAdapter is   *)
(* built from a semantic_config and builds its SemanticAnalyzer; then the  *)
(* reading is analysed and guidance generated, by the adapter or by a      *)
(* direct call of the analyzer on the adapter's cards                      *)

InitGuide ==
    /\ deck_path = 1
    /\ cards = <<1>>
    /\ shuffled = <<>>
    /\ is_reversed = <<FALSE>>
    /\ was_shuffled = FALSE
    /\ returned = {}
    /\ call = NoCall
    /\ result = NoResult
    /\ run1 = NoRun
    /\ adapter = NoAdapter
    /\ output = NoOutput
    /\ analyzer = NoAnalyzer
    /\ guidance = NoGuidance
    /\ notation = NoNotation
    /\ resolved = NoResolved
    /\ last_rng = NoRng
    /\ twin_rng = NoRng
    /\ pending = <<>>

(* SemanticAdapter(layout, cards, None, semantic_config), which builds     *)
(* SemanticAnalyzer(semantic_config)                                       *)
NewAnalyzer(layout, refs, semantic_config) ==
    /\ analyzer = NoAnalyzer
    /\ analyzer' = SemanticAdapterInit(layout, refs, <<>>, semantic_config)
    /\ guidance' = NoGuidance
    /\ UNCHANGED <<deck_vars, run1, sem_vars, code_vars, eng_vars>>

(* SemanticAdapter.get_analysis: analyze_card_combinations(self.cards) *)
GetAnalysisCall ==
    /\ analyzer.status = "ok"
    /\ guidance' = [op |-> "analyze_card_combinations", semantic_groups |-> <<>>,
                    value |-> AnalyzeCardCombinations(Objects(analyzer.cards))]
    /\ UNCHANGED <<deck_vars, run1, sem_vars, code_vars, analyzer, eng_vars>>

(* SemanticAnalyzer.generate_guidance(cards, semantic_groups) called on    *)
(* the adapter's analyzer and cards                                        *)
GenerateGuidanceCall(semantic_groups) ==
    /\ analyzer.status = "ok"
    /\ guidance' = [op |-> "generate_guidance", semantic_groups |-> semantic_groups,
                    value |-> GenerateGuidance(analyzer.semantic_config.guidance_rules,
                                               Objects(analyzer.cards),
                                               GroupObjects(semantic_groups))]
    /\ UNCHANGED <<deck_vars, run1, sem_vars, code_vars, analyzer, eng_vars>>

(* SemanticAdapter.generate_guidance *)
AdapterGenerateGuidanceCall ==
    /\ analyzer.status = "ok"
    /\ LET semantic_groups == GetSemanticGroups(analyzer.layout, analyzer.semantics,
                                                analyzer.cards, analyzer.semantic_config)
       IN  guidance' = [op |-> "SemanticAdapter.generate_guidance",
                        semantic_groups |-> semantic_groups,
                        value |-> GenerateGuidance(analyzer.semantic_config.guidance_rules,
                                                   Objects(analyzer.cards),
                                                   GroupObjects(semantic_groups))]
    /\ UNCHANGED <<deck_vars, run1, sem_vars, code_vars, analyzer, eng_vars>>

NextGuide ==
    \/ \E layout \in GuideLayouts, refs \in GuideDrawnInputs, semantic_config \in ConfigInputs :
          NewAnalyzer(layout, refs, semantic_config)
    \/ GetAnalysisCall
    \/ \E semantic_groups \in GroupsInputs(analyzer.cards) : GenerateGuidanceCall(semantic_groups)
    \/ AdapterGenerateGuidanceCall

SpecGuide == InitGuide /\ [][NextGuide]_vars

----------------------------------------------------------------------------
(* The machine of the card codes: the notation of a card of the built-in   *)
(* deck is formatted, and a text of card codes is resolved, the notation   *)
(* just formatted or a CSV text; both functions are pure, so one call of   *)
(* get_notation and one CSV text per behaviour show all there is           *)

InitCodes ==
    /\ deck_path = 1
    /\ cards = <<1>>
    /\ shuffled = <<>>
    /\ is_reversed = <<FALSE>>
    /\ was_shuffled = FALSE
    /\ returned = {}
    /\ call = NoCall
    /\ result = NoResult
    /\ run1 = NoRun
    /\ adapter = NoAdapter
    /\ output = NoOutput
    /\ analyzer = NoAnalyzer
    /\ guidance = NoGuidance
    /\ notation = NoNotation
    /\ resolved = NoResolved
    /\ last_rng = NoRng
    /\ twin_rng = NoRng
    /\ pending = <<>>

(* card.get_notation() for card i of Deck().cards, its is_reversed set *)
GetNotationCall(i, reversed) ==
    /\ notation = NoNotation
    /\ notation' = [op |-> "get_notation", card |-> i, is_reversed |-> reversed,
                    value |-> GetNotation(CreateDeck[i], reversed)]
    /\ UNCHANGED <<deck_vars, run1, sem_vars, guide_vars, resolved, eng_vars>>

(* resolve_card_codes(card.get_notation()) *)
ResolveNotationCall ==
    /\ notation.op = "get_notation"
    /\ LET value == ResolveCardCodes(notation.value)
       IN  resolved' = [op |-> "resolve_card_codes", codes |-> notation.value, items |-> <<>>,
                        card |-> notation.card, is_reversed |-> notation.is_reversed,
                        status |-> value.status, cards |-> value.cards]
    /\ UNCHANGED <<deck_vars, run1, sem_vars, guide_vars, notation, eng_vars>>

(* resolve_card_codes(codes) for the CSV text of a list of entries *)
ResolveCardCodesCall(items) ==
    /\ resolved = NoResolved
    /\ LET value == ResolveCardCodes(JoinItems(items, 1))
       IN  resolved' = [op |-> "resolve_card_codes", codes |-> JoinItems(items, 1),
                        items |-> items, card |-> 0, is_reversed |-> FALSE,
                        status |-> value.status, cards |-> value.cards]
    /\ UNCHANGED <<deck_vars, run1, sem_vars, guide_vars, notation, eng_vars>>

NextCodes ==
    \/ \E i \in 1..Len(CreateDeck), reversed \in BOOLEAN : GetNotationCall(i, reversed)
    \/ ResolveNotationCall
    \/ \E items \in CodeLists : ResolveCardCodesCall(items)

SpecCodes == InitCodes /\ [][NextCodes]_vars

----------------------------------------------------------------------------
(* The machine of one DeterministicRNG: it is built from a seed, next to   *)
(* it a twin from the seed wrapped to 31 bits, and next_int is called on   *)
(* both with the same bounds                                               *)

MaxCalls == 3           \* next_int is called 0..MaxCalls times on a generator

(* seeds: those create_seed gives, and small, large and wide integers *)
RngSeeds ==
    { CreateSeed(args[1], args[2], args[3], 0, <<>>) : args \in {a \in SeedArgs : a[4] = 0} }
    \cup { [hi |-> 0, lo |-> 0], [hi |-> 0, lo |-> 1], [hi |-> 0, lo |-> 2147483647],
           [hi |-> 1, lo |-> 0], [hi |-> 3, lo |-> 2147483647], [hi |-> 7, lo |-> 12345] }

(* bounds of next_int: the shuffle uses 2..78 *)
RngBounds == {1, 2, 3, 78}

InitRng ==
    /\ deck_path = 1
    /\ cards = <<1>>
    /\ shuffled = <<>>
    /\ is_reversed = <<FALSE>>
    /\ was_shuffled = FALSE
    /\ returned = {}
    /\ call = NoCall
    /\ result = NoResult
    /\ run1 = NoRun
    /\ adapter = NoAdapter
    /\ output = NoOutput
    /\ analyzer = NoAnalyzer
    /\ guidance = NoGuidance
    /\ notation = NoNotation
    /\ resolved = NoResolved
    /\ last_rng = NoRng
    /\ twin_rng = NoRng
    /\ pending = <<>>

(* DeterministicRNG(seed) and DeterministicRNG(seed % 2**31) *)
NewRng(seed) ==
    /\ call = NoCall
    /\ call' = [NoCall EXCEPT !.op = "DeterministicRNG"]
    /\ result' = [NoResult EXCEPT !.seed = seed]
    /\ last_rng' = RngInit(seed)
    /\ twin_rng' = RngInit([hi |-> 0, lo |-> seed.lo])
    /\ UNCHANGED <<deck_path, cards, shuffled, is_reversed, was_shuffled, returned, run1,
                   sem_vars, guide_vars, code_vars, pending>>

(* next_int(max_value) on the generator and on its twin *)
NextIntCall(max_value) ==
    /\ call.op \in {"DeterministicRNG", "next_int"}
    /\ Len(last_rng.calls) < MaxCalls
    /\ call' = [NoCall EXCEPT !.op = "next_int", !.count = max_value]
    /\ last_rng' = NextInt(last_rng, max_value).state
    /\ twin_rng' = NextInt(twin_rng, max_value).state
    /\ UNCHANGED <<deck_path, cards, shuffled, is_reversed, was_shuffled, returned, result, run1,
                   sem_vars, guide_vars, code_vars, pending>>

NextRng ==
    \/ \E seed \in RngSeeds : NewRng(seed)
    \/ \E max_value \in RngBounds : NextIntCall(max_value)

SpecRng == InitRng /\ [][NextRng]_vars

----------------------------------------------------------------------------
(* The machine of _normalize_spread_layout: a layout is normalised, and    *)
(* the matrix returned is normalised again                                 *)

MaxRowLen == 3          \* a row of a layout holds 0..MaxRowLen cells

(* cells of a layout: a negative value, the empty cell 0, positions *)
LayoutCells == {-1, 0, 1, 2}

LayoutRows == UNION {[1..n -> LayoutCells] : n \in 0..MaxRowLen}

(* flat lists, matrices of one row and some matrices of two rows *)
NormalizeInputs ==
    {Flat(row) : row \in LayoutRows}
    \cup {Matrix(<<row>>) : row \in LayoutRows}
    \cup {Matrix(<<row, <<0, 2>>>>) : row \in LayoutRows}
    \cup LayoutInputs

InitLayout ==
    /\ deck_path = 1
    /\ cards = <<1>>
    /\ shuffled = <<>>
    /\ is_reversed = <<FALSE>>
    /\ was_shuffled = FALSE
    /\ returned = {}
    /\ call = NoCall
    /\ result = NoResult
    /\ run1 = NoRun
    /\ adapter = NoAdapter
    /\ output = NoOutput
    /\ analyzer = NoAnalyzer
    /\ guidance = NoGuidance
    /\ notation = NoNotation
    /\ resolved = NoResolved
    /\ last_rng = NoRng
    /\ twin_rng = NoRng
    /\ pending = <<>>

(* self._normalize_spread_layout(spread_layout) *)
NormalizeCall(spread_layout) ==
    /\ output = NoOutput
    /\ LET r == NormalizeSpreadLayout(spread_layout)
       IN  output' = [op |-> "_normalize_spread_layout", input |-> spread_layout,
                      again |-> FALSE, needed_before |-> 0,
                      layout |-> r.layout, needed_cards |-> r.needed_cards]
    /\ UNCHANGED <<deck_vars, run1, adapter, guide_vars, code_vars, eng_vars>>

(* self._normalize_spread_layout(normalized_layout) for the matrix the     *)
(* last call returned                                                      *)
NormalizeAgainCall ==
    /\ output.op = "_normalize_spread_layout"
    /\ LET r == NormalizeSpreadLayout(Matrix(output.layout))
       IN  output' = [op |-> "_normalize_spread_layout", input |-> Matrix(output.layout),
                      again |-> TRUE, needed_before |-> output.needed_cards,
                      layout |-> r.layout, needed_cards |-> r.needed_cards]
    /\ UNCHANGED <<deck_vars, run1, adapter, guide_vars, code_vars, eng_vars>>

NextLayout ==
    \/ \E spread_layout \in NormalizeInputs : NormalizeCall(spread_layout)
    \/ NormalizeAgainCall

SpecLayout == InitLayout /\ [][NextLayout]_vars

----------------------------------------------------------------------------
(* The machine of the placeholders: a text is resolved, and the result     *)
(* resolved again; a spread configuration with a semantics matrix is       *)
(* validated as load_spread and save_spread validate it                    *)

MaxPieces == 3          \* a text is made of 0..MaxPieces pieces

(* the pieces of the texts: placeholders of the vocabulary, a placeholder  *)
(* outside it, the opening and the closing of a placeholder, a letter      *)
TextPieces ==
    << <<36, 123, 102, 105, 114, 101, 125>>, <<36, 123, 119, 97, 116, 101, 114, 125>>, <<36, 123, 115, 112, 105, 114, 105, 116, 125>>, <<36, 123, 122, 122, 125>>, <<36, 123>>, <<125>>, <<120>> >>

PieceLists == UNION {[1..n -> 1..Len(TextPieces)] : n \in 0..MaxPieces}

(* the text of a list of pieces *)
TextOf(items) == Concat([k \in 1..Len(items) |-> TextPieces[items[k]]])

(* semantics matrices: one row of one cell or of a cell and null, two rows *)
ValidateInputs ==
    { << <<TextOf(items)>> >> : items \in PieceLists }
    \cup { << <<None, TextOf(items)>> >> : items \in PieceLists }
    \cup { << <<TextPieces[1]>>, <<TextOf(items)>> >> : items \in PieceLists }

InitText ==
    /\ deck_path = 1
    /\ cards = <<1>>
    /\ shuffled = <<>>
    /\ is_reversed = <<FALSE>>
    /\ was_shuffled = FALSE
    /\ returned = {}
    /\ call = NoCall
    /\ result = NoResult
    /\ run1 = NoRun
    /\ adapter = NoAdapter
    /\ output = NoOutput
    /\ analyzer = NoAnalyzer
    /\ guidance = NoGuidance
    /\ notation = NoNotation
    /\ resolved = NoResolved
    /\ last_rng = NoRng
    /\ twin_rng = NoRng
    /\ pending = <<>>

(* SemanticAnalyzer().resolve_variables(text) *)
ResolveVariablesCall(items) ==
    /\ output = NoOutput
    /\ output' = [op |-> "resolve_variables", items |-> items, input |-> TextOf(items),
                  again |-> FALSE, semantics |-> <<>>, status |-> "ok",
                  value |-> ResolveVariables(TextOf(items))]
    /\ UNCHANGED <<deck_vars, run1, adapter, guide_vars, code_vars, eng_vars>>

(* resolve_variables applied to the text it returned *)
ResolveVariablesAgainCall ==
    /\ output.op = "resolve_variables"
    /\ output' = [op |-> "resolve_variables", items |-> output.items, input |-> output.value,
                  again |-> TRUE, semantics |-> <<>>, status |-> "ok",
                  value |-> ResolveVariables(output.value)]
    /\ UNCHANGED <<deck_vars, run1, adapter, guide_vars, code_vars, eng_vars>>

(* SpreadLoader()._validate_spread_config({'name': ..., 'layout': ...,     *)
(* 'semantics': semantics}, path)                                          *)
ValidateSpreadConfigCall(semantics) ==
    /\ output = NoOutput
    /\ output' = [op |-> "_validate_spread_config", items |-> <<>>, input |-> <<>>,
                  again |-> FALSE, semantics |-> semantics,
                  status |-> ValidateSpreadConfig(semantics).status, value |-> <<>>]
    /\ UNCHANGED <<deck_vars, run1, adapter, guide_vars, code_vars, eng_vars>>

NextText ==
    \/ \E items \in PieceLists : ResolveVariablesCall(items)
    \/ ResolveVariablesAgainCall
    \/ \E semantics \in ValidateInputs : ValidateSpreadConfigCall(semantics)

SpecText == InitText /\ [][NextText]_vars

----------------------------------------------------------------------------
(* The machine of a lookup next to a deck in use: the deck of a            *)
(* TarotDivination is shuffled, resolve_card_codes is called, and the      *)
(* caller sets the orientation of a card it was given                      *)

(* the lists of entries looked up, as indexes into CodeItems *)
LookupLists == { <<>>, <<1>>, <<4>>, <<1, 4>>, <<4, 4>>, <<3, 2>>, <<1, 5>> }

(* resolve_card_codes(codes) while the deck exists *)
LookupCall(items) ==
    /\ resolved = NoResolved
    /\ LET value == ResolveCardCodes(JoinItems(items, 1))
           objects == ResolvedObjects(cards, is_reversed, value.cards)
       IN  /\ resolved' = [op |-> "resolve_card_codes", codes |-> JoinItems(items, 1),
                           items |-> items, card |-> 0, is_reversed |-> FALSE,
                           status |-> value.status, cards |-> value.cards,
                           objects |-> objects, oriented |-> 0]
           /\ is_reversed' = IF JoinItems(items, 1) = <<>> THEN is_reversed
                             ELSE FlagsAfterLookup(is_reversed, objects, value.cards)
    /\ UNCHANGED <<deck_path, cards, shuffled, was_shuffled, returned, call, result,
                   run1, sem_vars, guide_vars, notation, eng_vars>>

(* resolved_cards[k].is_reversed = reversed, on the list returned *)
SetOrientationCall(k, reversed) ==
    /\ resolved.op = "resolve_card_codes"
    /\ resolved.status = "ok"
    /\ k \in 1..Len(resolved.objects)
    /\ is_reversed' = [is_reversed EXCEPT ![resolved.objects[k]] = reversed]
    /\ resolved' = [resolved EXCEPT !.oriented = k]
    /\ UNCHANGED <<deck_path, cards, shuffled, was_shuffled, returned, call, result,
                   run1, sem_vars, guide_vars, notation, eng_vars>>

NextLookup ==
    \/ \E args \in {a \in SeedArgs : a[4] = 0}, allow_reversed \in BOOLEAN :
          Shuffle(args, allow_reversed)
    \/ \E items \in LookupLists : LookupCall(items)
    \/ \E k \in 1..MaxCodes, reversed \in BOOLEAN : SetOrientationCall(k, reversed)

SpecLookup == Init /\ [][NextLookup]_vars

----------------------------------------------------------------------------
(* The machine of two readings on one TarotDivination whose calls of       *)
(* draw_cards_for_reading interleave: each call runs its shuffle step      *)
(* (lines 1135-1136) and later its draw step (lines 1138-1139), and the    *)
(* other call may run a step in between.  Both use self.deck.              *)

Readings == {1, 2}

(* the layouts of the interleaved readings: one card, two cards *)
ReadingLayouts == { Flat(<<1>>), Matrix(<< <<2, 1>> >>) }

(* rng = DeterministicRNG(seed); self.deck.shuffle_and_assign_reversals(rng, allow_reversed) *)
ShuffleStep(reading, args, spread_layout, allow_reversed) ==
    LET seed == CreateSeed(args[1], args[2], args[3], 0, <<>>)
        sh == ShuffleAndAssignReversals(cards, is_reversed, RngInit(seed), allow_reversed)
    IN  /\ \A k \in 1..Len(pending) : pending[k].reading # reading
        /\ shuffled' = sh.shuffled
        /\ is_reversed' = sh.is_reversed
        /\ was_shuffled' = TRUE
        /\ returned' = {}
        /\ last_rng' = sh.rng
        /\ pending' = Append(pending,
                             [reading |-> reading, seed |-> seed, layout |-> spread_layout,
                              allow_reversed |-> allow_reversed,
                              own_shuffled |-> sh.shuffled, own_is_reversed |-> sh.is_reversed])
        /\ UNCHANGED <<deck_path, cards, call, result, run1, sem_vars, guide_vars, code_vars, twin_rng>>

(* _, needed_cards = self._normalize_spread_layout(spread_layout);         *)
(* return self.deck.draw_cards(needed_cards)                               *)
DrawStep(reading) ==
    \E k \in 1..Len(pending) :
        /\ pending[k].reading = reading
        /\ LET r == DrawCards(shuffled, NormalizeSpreadLayout(pending[k].layout).needed_cards)
           IN  /\ call' = [op |-> "draw_cards_for_reading", seed_args |-> <<>>, entropy |-> <<>>,
                           layout |-> pending[k].layout,
                           allow_reversed |-> pending[k].allow_reversed, count |-> 0]
               /\ result' = [status |-> r.status, cards |-> r.cards, seed |-> pending[k].seed,
                             reading |-> reading,
                             orientations |-> Orientations(r.cards, is_reversed),
                             own_shuffled |-> pending[k].own_shuffled,
                             own_is_reversed |-> pending[k].own_is_reversed,
                             others |-> Len(pending) - 1]
        /\ pending' = [j \in 1..(Len(pending) - 1) |-> IF j < k THEN pending[j] ELSE pending[j + 1]]
        /\ UNCHANGED <<deck_path, cards, shuffled, is_reversed, was_shuffled, returned,
                       run1, sem_vars, guide_vars, code_vars, last_rng, twin_rng>>

NextInterleaved ==
    \/ \E reading \in Readings, args \in {a \in SeedArgs : a[4] = 0 /\ a[3] = None},
          spread_layout \in ReadingLayouts, allow_reversed \in BOOLEAN :
          ShuffleStep(reading, args, spread_layout, allow_reversed)
    \/ \E reading \in Readings : DrawStep(reading)

SpecInterleaved == Init /\ [][NextInterleaved]_vars

----------------------------------------------------------------------------
(* Properties of the deck and of readings *)

DistinctPositive(matrix) == {pos \in Range(Concat(matrix)) : pos > 0}

IsReading == call.op = "draw_cards_for_reading"

(* C1: a reading run twice in a row with the same timestamp, question and  *)
(* influence text, no entropy bytes, the same layout and the same          *)
(* allow_reversed yields the same seed, the same shuffled order, the same  *)
(* orientations and the same drawn cards both times.                       *)
C1_Determinism ==
    (/\ IsReading
     /\ run1.status = "kept"
     /\ call.seed_args[4] = 0
     /\ call.seed_args = run1.seed_args
     /\ call.layout = run1.layout
     /\ call.allow_reversed = run1.allow_reversed)
    => Observed(call, result, shuffled, is_reversed) = run1

C1_Witness ==
    /\ IsReading
    /\ run1.status = "kept"
    /\ call.seed_args[4] = 0
    /\ call.allow_reversed
    /\ Observed(call, result, shuffled, is_reversed) = run1
    /\ Len(result.cards) = 3
    /\ shuffled # cards
    /\ \E i \in 1..3 : is_reversed[result.cards[i]]
    /\ \E i \in 1..3 : ~is_reversed[result.cards[i]]

(* C2: every card returned by draw_cards_for_reading with                  *)
(* allow_reversed = False is upright, whatever was shuffled before.        *)
C2_UprightWhenNotAllowed ==
    (IsReading /\ ~call.allow_reversed)
    => \A i \in 1..Len(result.cards) : ~is_reversed[result.cards[i]]

(* C3: the number of cards a reading returns is the number of distinct     *)
(* positive values of the normalized layout, and at most the deck size.    *)
C3_DrawCompleteness ==
    IsReading
    => LET distinct == Cardinality(DistinctPositive(NormalizeSpreadLayout(call.layout).layout))
       IN  /\ distinct <= Len(cards) => Len(result.cards) = distinct
           /\ Len(result.cards) <= Len(cards)

(* C5: while no shuffle has run, Deck.shuffled is empty, the deck is as    *)
(* constructed, and draw_cards(n) raises an error and returns no cards.    *)
C5_NoDrawBeforeShuffle ==
    ~was_shuffled
    => /\ shuffled = <<>>
       /\ cards = [i \in 1..Len(DeckCards(deck_path)) |-> i]
       /\ \A c \in DOMAIN is_reversed : ~is_reversed[c]
       /\ call.op = "draw_cards" => (result.status = "ValueError" /\ result.cards = <<>>)

C5_Witness ==
    /\ ~was_shuffled
    /\ call.op = "draw_cards"
    /\ call.count = 2
    /\ result.status = "ValueError"

(* C6: after a shuffle, draw_cards(n) raises an error when n exceeds the   *)
(* length of the shuffled sequence, and otherwise returns its first n      *)
(* cards.                                                                  *)
C6_DrawRange ==
    (was_shuffled /\ call.op = "draw_cards")
    => IF call.count > Len(shuffled)
       THEN result.status # "ok" /\ result.cards = <<>>
       ELSE result.status = "ok" /\ result.cards = SubSeq(shuffled, 1, call.count)

(* C7: after one shuffle no card is returned by two different draw_cards   *)
(* calls, and the cards still available are the deck less those drawn.     *)
C7_WithoutReplacement ==
    (was_shuffled /\ call.op = "draw_cards" /\ result.status = "ok")
    => /\ Range(result.cards) \cap returned = {}
       /\ Len(shuffled) = Len(cards) - Cardinality(returned \cup Range(result.cards))

----------------------------------------------------------------------------
(* Properties of the semantic adapter and the renderer *)

(* v is the RankOf-th smallest distinct positive value of the layout *)
RankOf(layout, v) == Cardinality({pos \in DistinctPositive(layout) : pos < v}) + 1

(* the first cell, in row-major order, that holds the value v *)
CellsOf(layout, v) ==
    {rc \in (1..Len(layout)) \X (1..Len(Concat(layout))) :
        rc[2] <= Len(layout[rc[1]]) /\ layout[rc[1]][rc[2]] = v}

FirstCellOf(layout, v) ==
    CHOOSE rc \in CellsOf(layout, v) :
        \A o \in CellsOf(layout, v) : rc[1] < o[1] \/ (rc[1] = o[1] /\ rc[2] <= o[2])

(* the value whose rank is i *)
ValueOfRank(layout, i) == CHOOSE v \in DistinctPositive(layout) : RankOf(layout, v) = i

(* C4: the i-th drawn card is the card shown in every cell holding the     *)
(* i-th smallest distinct positive layout value, the card found at that    *)
(* position, and the card labelled with the semantic of that position.     *)
C4_PositionMapping ==
    /\ (output.op = "render_spread" /\ output.status = "ok")
       => \A r \in 1..Len(adapter.layout) : \A c \in 1..Len(adapter.layout[r]) :
             adapter.layout[r][c] > 0
             => output.value[r][c] = adapter.cards[RankOf(adapter.layout, adapter.layout[r][c])]
    /\ output.op = "_get_card_at_position"
       => IF output.position \in DistinctPositive(adapter.layout)
             /\ RankOf(adapter.layout, output.position) <= Len(adapter.cards)
          THEN output.value = adapter.cards[RankOf(adapter.layout, output.position)]
          ELSE output.value = 0
    /\ output.op = "_build_card_index_to_semantic"
       => \A card_idx \in DOMAIN output.value :
             /\ card_idx + 1 <= Cardinality(DistinctPositive(adapter.layout))
             /\ LET rc == FirstCellOf(adapter.layout, ValueOfRank(adapter.layout, card_idx + 1))
                IN  output.value[card_idx] = adapter.semantics[rc[1]][rc[2]]

C4_Witness ==
    /\ output.op = "render_spread"
    /\ output.status = "ok"
    /\ adapter.layout = << <<2, 1, 3>> >>
    /\ adapter.cards = <<3, 1, 4>>
    /\ output.value = << <<1, 3, 4>> >>

(* a is before b in lexicographic order of code points *)
LexBefore(a, b) ==
    \E k \in 0..Min(Len(a), Len(b)) :
        /\ SubSeq(a, 1, k) = SubSeq(b, 1, k)
        /\ \/ (k = Len(a) /\ k < Len(b))
           \/ (k < Len(a) /\ k < Len(b) /\ a[k + 1] < b[k + 1])

LegendLabels(legend) == [i \in 1..Len(legend) |-> legend[i][1]]

(* C8: in the rendered legend the named groups appear in lexicographic     *)
(* order of their labels, each group's cards in draw order, and the        *)
(* "General Information" group after all of them.                          *)
C8_GroupingOrder ==
    output.op = "render_semantic_legend"
    => LET legend == output.value
           n == Len(legend)
       IN  /\ \A i \in 1..n : legend[i][1] = GeneralInformation => i = n
           /\ \A i \in 1..n : \A j \in (i + 1)..n :
                 legend[j][1] # GeneralInformation => LexBefore(legend[i][1], legend[j][1])
           /\ \A i \in 1..n : \A a \in 1..Len(legend[i][2]) : \A b \in (a + 1)..Len(legend[i][2]) :
                 IndexOf(adapter.cards, legend[i][2][a]) < IndexOf(adapter.cards, legend[i][2][b])
           /\ adapter.cards # <<>>
              => {legend[i][1] : i \in 1..n}
                   = DictKeys(GroupCardsBySemantic(adapter.layout, adapter.semantics, adapter.cards))

C8_Witness ==
    /\ output.op = "render_semantic_legend"
    /\ LegendLabels(output.value) = << <<65, 97, 97>>, <<90, 122, 122>>, GeneralInformation >>

(* C9: the card drawn for an occupied position is grouped under the        *)
(* placeholder-resolved cell of the semantics matrix at that position      *)
(* when the cell exists and is not empty, else under "General              *)
(* Information".                                                           *)
C9_GroupLabel ==
    output.op = "_group_cards_by_semantic"
    => \A i \in 1..Min(Len(adapter.cards), Cardinality(DistinctPositive(adapter.layout))) :
          LET rc == FirstCellOf(adapter.layout, ValueOfRank(adapter.layout, i))
              cell == IF adapter.given = <<>> THEN None ELSE adapter.given[rc[1]][rc[2]]
              label == IF Truthy(cell) THEN ResolveVariables(cell) ELSE GeneralInformation
          IN  /\ label \in DictKeys(output.value)
              /\ adapter.cards[i] \in Range(DictGet(output.value, label))

(* the matrix has another number of rows than the layout, or a row of      *)
(* another length                                                          *)
DimensionsDiffer(layout, matrix) ==
    \/ Len(layout) # Len(matrix)
    \/ \E r \in 1..Min(Len(layout), Len(matrix)) : Len(layout[r]) # Len(matrix[r])

(* C10: a semantics matrix that is given (has a row) and whose dimensions  *)
(* differ from the layout's makes the constructor raise, and then no       *)
(* grouping is produced.                                                   *)
C10_DimensionMismatch ==
    (adapter.status # "none" /\ adapter.given # <<>>
        /\ DimensionsDiffer(adapter.layout, adapter.given))
    => /\ adapter.status = "ValueError"
       /\ output.op \in {"none", "render_spread"}

C10_Witness ==
    /\ adapter.status = "ValueError"
    /\ Len(adapter.layout) = Len(adapter.given)
    /\ Len(adapter.layout) = 2
    /\ output = NoOutput

----------------------------------------------------------------------------
(* Properties of the guidance rules *)

IsGuidance == guidance.op \in {"generate_guidance", "SemanticAdapter.generate_guidance"}

(* the rules of the analyzer and the cards of the reading *)
TheRules == analyzer.semantic_config.guidance_rules
TheCards == Objects(analyzer.cards)

(* the line a rule emits, and whether the last call emitted it; the rule   *)
(* texts of a list are distinct and differ from the general insights       *)
RuleLine(rule) == <<45, 32>> \o ResolveVariables(rule.guidance)
Fired(rule) == RuleLine(rule) \in Range(guidance.value)

MajorCount(objs) == Cardinality({i \in 1..Len(objs) : objs[i].card.card_type = "major"})
MinorCount(objs) == Cardinality({i \in 1..Len(objs) : objs[i].card.card_type = "minor"})
ReversedCount(objs) == Cardinality({i \in 1..Len(objs) : objs[i].is_reversed})
SuitCount(objs, suit) ==
    Cardinality({i \in 1..Len(objs) : objs[i].card.card_type = "minor" /\ objs[i].card.suit = suit})

(* the number of drawn cards of an element: fire is the suit of Wands,     *)
(* water of Cups, air of Swords, earth of Pentacles; no card is of any     *)
(* other element                                                           *)
ElementTally(objs, element) ==
    CASE element = "fire" -> SuitCount(objs, "W")
      [] element = "water" -> SuitCount(objs, "C")
      [] element = "air" -> SuitCount(objs, "S")
      [] element = "earth" -> SuitCount(objs, "P")
      [] OTHER -> 0

(* the conditions that are bounds on the analysis record *)
BoundKeys == {"major_arcana_min", "major_arcana_max", "minor_arcana_min", "court_cards_min",
              "reversed_min", "reversed_max", "elemental_balance"}

(* the condition under one key holds for the drawn cards *)
KeyHolds(key, conditions, objs) ==
    CASE key = "major_arcana_min" -> MajorCount(objs) >= conditions.major_arcana_min
      [] key = "major_arcana_max" -> MajorCount(objs) <= conditions.major_arcana_max
      [] key = "minor_arcana_min" -> MinorCount(objs) >= conditions.minor_arcana_min
      [] key = "court_cards_min" ->
            AnalyzeCardCombinations(objs).court_cards_count >= conditions.court_cards_min
      [] key = "reversed_min" -> ReversedCount(objs) >= conditions.reversed_min
      [] key = "reversed_max" -> ReversedCount(objs) <= conditions.reversed_max
      [] key = "elemental_balance" ->
            \A k \in 1..Len(conditions.elemental_balance) :
                ElementTally(objs, conditions.elemental_balance[k][1])
                    >= conditions.elemental_balance[k][2]
      [] OTHER -> FALSE

Matching ==
    {k \in 1..Len(TheRules) :
        /\ RuleMatches(TheRules[k], TheCards, AnalyzeCardCombinations(TheCards),
                       GroupObjects(guidance.semantic_groups))
        /\ TheRules[k].guidance # <<>>}

PlaceOf(k) == Cardinality({j \in Matching : j <= k})

(* C12: generate_guidance emits the placeholder-resolved text of every     *)
(* matching rule that has a text, in the order of the rule list, whatever  *)
(* matched before; only general insights follow the rule lines.            *)
C12_AllMatchingRulesFire ==
    IsGuidance
    => /\ Len(guidance.value) >= Cardinality(Matching)
       /\ \A k \in Matching : guidance.value[PlaceOf(k)] = RuleLine(TheRules[k])
       /\ \A i \in (Cardinality(Matching) + 1)..Len(guidance.value) :
             guidance.value[i] \in {MajorArcanaDominance, ManyReversedCards}

C12_Witness ==
    /\ IsGuidance
    /\ Cardinality(Matching) = 2
    /\ guidance.value[1] = <<45, 32, 66, 32, 75, 97, 114, 109, 105, 99, 32, 70, 111, 114, 99, 101, 115, 47, 67, 111, 115, 109, 105, 99, 32, 73, 110, 102, 108, 117, 101, 110, 99, 101, 115, 32, 40, 70, 105, 114, 101, 41>>
    /\ guidance.value[2] = <<45, 32, 65>>

(* C13: a rule without conditions matches every drawn set, the empty one   *)
(* too, whatever the semantic groups are.                                  *)
C13_NoConditionsAlwaysMatch ==
    IsGuidance
    => \A k \in 1..Len(TheRules) :
          (TheRules[k].conditions.keys = {} /\ TheRules[k].guidance # <<>>)
          => Fired(TheRules[k])

C13_Witness ==
    /\ IsGuidance
    /\ analyzer.cards = <<>>
    /\ guidance.value = << <<45, 32, 66, 32, 75, 97, 114, 109, 105, 99, 32, 70, 111, 114, 99, 101, 115, 47, 67, 111, 115, 109, 105, 99, 32, 73, 110, 102, 108, 117, 101, 110, 99, 101, 115, 32, 40, 70, 105, 114, 101, 41>> >>

(* a rule whose conditions are one card condition of the given type *)
HasOnly(rule, type) ==
    /\ rule.conditions.keys = {"cards"}
    /\ Len(rule.conditions.cards) = 1
    /\ rule.conditions.cards[1].type = type
    /\ rule.guidance # <<>>

(* a listed entry is the display name or the notation code of the card *)
EntryNames(req_card, o) ==
    \/ req_card.name # "" /\ req_card.name = o.card.name
    \/ req_card.name = "" /\ req_card.text = GetNotationCode(o.card)

(* C14: a rule with one "anywhere" condition fires iff one of the listed   *)
(* entries is the display name or the notation code (as 'XVI', 'WN') of a  *)
(* drawn card.                                                             *)
C14_NamedCardAnywhere ==
    IsGuidance
    => \A k \in 1..Len(TheRules) :
          HasOnly(TheRules[k], "anywhere")
          => (Fired(TheRules[k])
                <=> \E e \in 1..Len(TheRules[k].conditions.cards[1].cards) :
                    \E i \in 1..Len(TheCards) :
                        EntryNames(TheRules[k].conditions.cards[1].cards[e], TheCards[i]))

(* the cards drawn at the positions of the configured group with this key *)
ConfiguredGroupCards(key) ==
    LET groups == analyzer.semantic_config.semantic_groups
        g == CHOOSE g \in 1..Len(groups) : groups[g].name = key
    IN  {analyzer.cards[RankOf(analyzer.layout, p)] :
            p \in {q \in Range(groups[g].positions) :
                      /\ q \in DistinctPositive(analyzer.layout)
                      /\ RankOf(analyzer.layout, q) <= Len(analyzer.cards)}}

IsConfiguredGroup(key) ==
    /\ "semantic_groups" \in analyzer.semantic_config.keys
    /\ \E g \in 1..Len(analyzer.semantic_config.semantic_groups) :
          analyzer.semantic_config.semantic_groups[g].name = key

(* C15: under SemanticAdapter.generate_guidance a rule with one "in_group" *)
(* condition naming a group of semantic_groups by its key fires iff every  *)
(* listed card is among the cards drawn at the positions of that group.    *)
C15_CardInNamedGroup ==
    guidance.op = "SemanticAdapter.generate_guidance"
    => \A k \in 1..Len(TheRules) :
          (HasOnly(TheRules[k], "in_group")
             /\ IsConfiguredGroup(TheRules[k].conditions.cards[1].group))
          => (Fired(TheRules[k])
                <=> \A e \in 1..Len(TheRules[k].conditions.cards[1].cards) :
                    \E ref \in ConfiguredGroupCards(TheRules[k].conditions.cards[1].group) :
                        EntryNames(TheRules[k].conditions.cards[1].cards[e], GuideObjects[ref]))

(* the card is a Page, Knight, Queen or King of a suit, by its name *)
IsCourtByName(card) ==
    /\ card.card_type = "minor"
    /\ \E rank \in {"Page", "Knight", "Queen", "King"} :
       \E suit_name \in {"Wands", "Cups", "Swords", "Pentacles"} :
          card.name = rank \o " of " \o suit_name

(* C16: court_cards_count of the analysis is the number of drawn minor     *)
(* cards that are a Page, Knight, Queen or King, for cards of the built-in *)
(* deck as for cards built by hand.                                        *)
C16_CourtCardCount ==
    guidance.op = "analyze_card_combinations"
    => guidance.value.court_cards_count
         = Cardinality({i \in 1..Len(TheCards) : IsCourtByName(TheCards[i].card)})

(* C17: a rule whose conditions hold a card_type_count entry, as the       *)
(* test-suite writes it, fires iff the number of drawn cards of that type  *)
(* is within min_count and max_count.                                      *)
C17_CardTypeCount ==
    IsGuidance
    => \A k \in 1..Len(TheRules) :
          (TheRules[k].conditions.keys = {"card_type_count"} /\ TheRules[k].guidance # <<>>)
          => LET cc == TheRules[k].conditions.card_type_count
                 type_count == IF cc.card_type = "major" THEN MajorCount(TheCards)
                               ELSE MinorCount(TheCards)
             IN  Fired(TheRules[k])
                   <=> /\ cc.has_min_count => cc.min_count <= type_count
                       /\ cc.has_max_count => type_count <= cc.max_count

----------------------------------------------------------------------------
(* Properties of the card codes *)

(* C18: for every card of the built-in deck, upright or reversed,          *)
(* get_notation returns exactly 7 characters: '[', a space or the reversal *)
(* marker, the code padded to 4 characters, ']'.                           *)
C18_NotationWidth ==
    notation.op = "get_notation"
    => /\ Len(notation.value) = 7
       /\ notation.value[1] = 91
       /\ notation.value[2] = (IF notation.is_reversed THEN 8595 ELSE 32)
       /\ SubSeq(notation.value, 3, 6) = PadTo4(GetNotationCode(CreateDeck[notation.card]))
       /\ notation.value[7] = 93

(* the last call resolved the notation of a card *)
IsRoundTrip == resolved.op = "resolve_card_codes" /\ resolved.card # 0

(* C19: for every card of the built-in deck, upright or reversed,          *)
(* resolve_card_codes(get_notation(card)) returns exactly one card, of     *)
(* the same name, type, suit and value and of the same orientation.        *)
C19_NotationRoundTrip ==
    IsRoundTrip
    => /\ resolved.status = "ok"
       /\ Len(resolved.cards) = 1
       /\ resolved.cards[1].card.name = CreateDeck[resolved.card].name
       /\ resolved.cards[1].card.card_type = CreateDeck[resolved.card].card_type
       /\ resolved.cards[1].card.suit = CreateDeck[resolved.card].suit
       /\ resolved.cards[1].card.value = CreateDeck[resolved.card].value
       /\ resolved.cards[1].is_reversed = resolved.is_reversed

C19_Witness ==
    /\ IsRoundTrip
    /\ resolved.codes = <<91, 8595, 88, 86, 73, 73, 73, 93>>
    /\ resolved.cards[1].card.name = "Moon"
    /\ resolved.cards[1].is_reversed

(* the notation codes of the deck *)
DeckCodes == {GetNotationCode(CreateDeck[i]) : i \in 1..Len(CreateDeck)}

(* the entry without the characters of the notation: blanks, brackets, the *)
(* reversal marker, the underscore                                         *)
BareCode(entry) == SelectSeq(entry, LAMBDA c : c \notin {32, 91, 93, 95, 8595})

(* the entry is written, and what it denotes is no notation code of the    *)
(* deck                                                                    *)
IsBadCode(entry) == BareCode(entry) # <<>> /\ BareCode(entry) \notin DeckCodes

(* C20: when an entry of the list is no notation code of a deck card,      *)
(* resolve_card_codes raises ValueError and returns no card, none of those *)
(* resolved before the bad entry either, wherever the bad entry stands.    *)
C20_LookupError ==
    (resolved.op = "resolve_card_codes" /\ resolved.card = 0)
    => \A k \in 1..Len(resolved.items) :
          IsBadCode(CodeItems[resolved.items[k]])
          => resolved.status = "ValueError" /\ resolved.cards = <<>>

C20_Witness ==
    /\ resolved.op = "resolve_card_codes"
    /\ resolved.codes = <<88, 86, 73, 44, 32, 87, 51, 32, 44, 90, 90>>
    /\ resolved.status = "ValueError"
    /\ resolved.cards = <<>>

----------------------------------------------------------------------------
(* Properties of the shuffle and of the generator *)

IsShuffle == call.op \in {"shuffle_and_assign_reversals", "draw_cards_for_reading"}

(* C23: after every shuffle_and_assign_reversals, whatever the seed and    *)
(* the shuffles before, Deck.shuffled holds every card of Deck.cards       *)
(* exactly once, and Deck.cards is the canonical list the deck was built   *)
(* with.                                                                   *)
C23_ShufflePermutation ==
    /\ cards = [i \in 1..Len(DeckCards(deck_path)) |-> i]
    /\ was_shuffled
       => /\ Len(shuffled) = Len(cards)
          /\ Range(shuffled) = Range(cards)
          /\ \A i \in 1..Len(shuffled) : \A j \in 1..Len(shuffled) :
                shuffled[i] = shuffled[j] => i = j

C23_Witness ==
    /\ call.op = "shuffle_and_assign_reversals"
    /\ Len(cards) = 3
    /\ shuffled # cards
    /\ Range(shuffled) = Range(cards)

(* C24: a shuffle of n cards calls the generator n-1 times with the bounds *)
(* n, n-1, ..., 2 in that order and then, iff allow_reversed, n times with *)
(* the bound 2; the k-th of these calls sets the orientation of the card   *)
(* at position k of the shuffled list, reversed for 1 and upright for 0.   *)
C24_RngConsumptionOrder ==
    IsShuffle
    => LET n == Len(cards)
           calls == last_rng.calls
       IN  /\ Len(calls) = (n - 1) + (IF call.allow_reversed THEN n ELSE 0)
           /\ \A k \in 1..(n - 1) : calls[k].max_value = n - k + 1
           /\ call.allow_reversed
              => \A k \in 1..n :
                    /\ calls[n - 1 + k].max_value = 2
                    /\ is_reversed[shuffled[k]] = (calls[n - 1 + k].value = 1)

C24_Witness ==
    /\ call.op = "shuffle_and_assign_reversals"
    /\ call.allow_reversed
    /\ Len(cards) = 3
    /\ Len(last_rng.calls) = 5
    /\ \E i \in 1..3 : is_reversed[i]
    /\ \E i \in 1..3 : ~is_reversed[i]

(* x + y modulo 2^31 for x, y in 0..2^31-1 *)
AddMod31(x, y) == IF x > 2147483647 - y THEN (x - (2147483647 - y)) - 1 ELSE x + y

(* x * y modulo 2^31 for x in 0..2^31-1, by doubling over the bits of y *)
RECURSIVE MulMod31(_, _)
MulMod31(x, y) ==
    IF y = 0 THEN 0
    ELSE LET half == MulMod31(x, y \div 2)
             twice == 2 * (half % 1073741824)
         IN  IF y % 2 = 1 THEN AddMod31(twice, x) ELSE twice

(* C25: a call next_int(bound), bound > 0, sets the state to               *)
(* (state * 1103515245 + 12345) mod 2^31 and returns the new state mod     *)
(* bound, so that 0 <= state < 2^31 and 0 <= result < bound after it; and  *)
(* the state changes in no step other than a call of next_int.             *)
C25_GeneratorStep ==
    [][/\ (call'.op = "next_int" /\ last_rng.calls # last_rng'.calls)
          => LET made == last_rng'.calls[Len(last_rng'.calls)]
             IN  /\ Len(last_rng'.calls) = Len(last_rng.calls) + 1
                 /\ last_rng'.hi = 0
                 /\ last_rng'.lo = AddMod31(MulMod31(last_rng.lo, 1103515245), 12345)
                 /\ last_rng'.lo >= 0
                 /\ last_rng'.lo <= 2147483647
                 /\ made.max_value = call'.count
                 /\ made.value = last_rng'.lo % made.max_value
                 /\ made.value >= 0
                 /\ made.value < made.max_value
       /\ (call.op \in {"DeterministicRNG", "next_int"}
             /\ <<last_rng'.hi, last_rng'.lo>> # <<last_rng.hi, last_rng.lo>>)
          => call'.op = "next_int" /\ Len(last_rng'.calls) = Len(last_rng.calls) + 1]_vars

C25_Witness ==
    /\ call.op = "next_int"
    /\ result.seed = [hi |-> 0, lo |-> 2147483647]
    /\ Len(last_rng.calls) = MaxCalls
    /\ last_rng.calls[1].max_value = 78
    /\ last_rng.calls[1].value > 2

PositiveCellCount(matrix) ==
    Cardinality({rc \in UNION {{<<r, c>> : c \in 1..Len(matrix[r])} : r \in 1..Len(matrix)} :
                    matrix[rc[1]][rc[2]] > 0})

(* C27: _normalize_spread_layout returns a flat list as a matrix of one    *)
(* row, a matrix as it is and the empty matrix for an empty input; the     *)
(* count returned is the number of strictly positive cells, a repeated     *)
(* value counted each time; normalising the matrix returned changes        *)
(* neither the matrix nor the count.                                       *)
C27_LayoutNormalization ==
    output.op = "_normalize_spread_layout"
    => /\ (output.input.flat = <<>> /\ output.input.rows = <<>>) => output.layout = <<>>
       /\ (output.input.kind = "flat" /\ output.input.flat # <<>>)
             => output.layout = <<output.input.flat>>
       /\ (output.input.kind = "matrix" /\ output.input.rows # <<>>)
             => output.layout = output.input.rows
       /\ output.needed_cards = PositiveCellCount(output.layout)
       /\ output.again
             => output.layout = output.input.rows /\ output.needed_cards = output.needed_before

C27_Witness ==
    /\ output.op = "_normalize_spread_layout"
    /\ output.again
    /\ output.layout = << <<2, -1, 2>> >>
    /\ output.needed_cards = 2


(* the text holds the piece at some place *)
Contains(text, piece) ==
    \E i \in 1..(Len(text) - Len(piece) + 1) : SubSeq(text, i, i + Len(piece) - 1) = piece

(* the names of the fixed vocabulary and the definition of a name *)
VocabularyNames == {VARIABLE_DEFINITIONS[k][1] : k \in 1..Len(VARIABLE_DEFINITIONS)}
DefinitionOf(name) ==
    VARIABLE_DEFINITIONS[CHOOSE k \in 1..Len(VARIABLE_DEFINITIONS) :
                            VARIABLE_DEFINITIONS[k][1] = name][2]

(* a piece that is a placeholder of the vocabulary stands for its          *)
(* definition, any other piece for itself                                  *)
PieceResolved(piece) ==
    IF \E name \in VocabularyNames : piece = Placeholder(name)
    THEN DefinitionOf(CHOOSE name \in VocabularyNames : piece = Placeholder(name))
    ELSE piece

(* the text holds '${', a name of at least one character without '}', and  *)
(* '}', the name being none of the vocabulary                              *)
HasUnknownPlaceholder(text) ==
    \E i \in 1..Len(text) : \E j \in (i + 3)..Len(text) :
        /\ SubSeq(text, i, i + 1) = <<36, 123>>
        /\ text[j] = 125
        /\ \A m \in (i + 2)..(j - 1) : text[m] # 125
        /\ SubSeq(text, i + 2, j - 1) \notin VocabularyNames

C29_HistoryIndependence ==
    (call.op = "draw_cards_for_reading" /\ call.allow_reversed)
    => LET fresh == DrawCardsForReading(cards, [i \in 1..Len(cards) |-> FALSE],
                                        result.seed, call.layout, TRUE)
       IN  /\ result.status = fresh.status
           /\ result.cards = fresh.cards
           /\ Orientations(result.cards, is_reversed)
                = Orientations(fresh.cards, fresh.is_reversed)

(* the reading before the last one left a card reversed that the last      *)
(* reading, of another seed, returns upright                               *)
C29_Witness ==
    /\ call.op = "draw_cards_for_reading"
    /\ call.allow_reversed
    /\ run1.status = "kept"
    /\ run1.seed # result.seed
    /\ \E k \in 1..Len(result.cards) : \E j \in 1..Len(run1.order) :
          /\ run1.order[j] = result.cards[k]
          /\ run1.orientations[j]
          /\ ~is_reversed[result.cards[k]]

(* the places (group, index in the group) of the groups of a grouping *)
GroupPlaces(groups) == UNION {{<<g, k>> : k \in 1..Len(groups[g][2])} : g \in 1..Len(groups)}

(* C30: _group_cards_by_semantic returns a partition of the drawn cards:   *)
(* every drawn card is in exactly one group, the cards of a group are in   *)
(* draw order, no group is empty, and every card whose draw index is not   *)
(* below the number of distinct positive layout values is in the group     *)
(* "General Information".                                                  *)
C30_GroupingIsPartition ==
    output.op = "_group_cards_by_semantic"
    => LET groups == output.value
           drawn == adapter.cards
       IN  /\ \A i \in 1..Len(drawn) :
                  Cardinality({p \in GroupPlaces(groups) : groups[p[1]][2][p[2]] = drawn[i]}) = 1
           /\ \A p \in GroupPlaces(groups) : \E i \in 1..Len(drawn) : groups[p[1]][2][p[2]] = drawn[i]
           /\ \A g, h \in 1..Len(groups) : groups[g][1] = groups[h][1] => g = h
           /\ \A g \in 1..Len(groups) : groups[g][2] # <<>>
           /\ \A g \in 1..Len(groups) : \A k, m \in 1..Len(groups[g][2]) :
                  k < m => \E i, j \in 1..Len(drawn) :
                               i < j /\ drawn[i] = groups[g][2][k] /\ drawn[j] = groups[g][2][m]
           /\ \A i \in 1..Len(drawn) :
                  i - 1 >= Cardinality(DistinctPositive(adapter.layout))
                  => \E g \in 1..Len(groups) :
                        /\ groups[g][1] = GeneralInformation
                        /\ drawn[i] \in Range(groups[g][2])

(* three cards on a layout of two positions with two semantics: two named  *)
(* groups and the third card under "General Information"                   *)
C30_Witness ==
    /\ output.op = "_group_cards_by_semantic"
    /\ Len(adapter.cards) = 3
    /\ Cardinality(DistinctPositive(adapter.layout)) = 2
    /\ Len(output.value) = 3
    /\ output.value[3] = <<GeneralInformation, <<adapter.cards[3]>>>>

(* the Card objects of the deck in use *)
DeckObjects == Range(cards) \cup Range(shuffled)

(* C21: resolve_card_codes returns copies: no card it returns is a card of *)
(* the deck in use, the call changes no field of a card of that deck, and  *)
(* setting the orientation of a card it returned leaves the deck as it     *)
(* was.                                                                    *)
C21_LookupReturnsCopies ==
    [][resolved' # resolved
       => /\ Range(resolved'.objects) \cap DeckObjects = {}
          /\ cards' = cards
          /\ shuffled' = shuffled
          /\ \A o \in DeckObjects : is_reversed'[o] = is_reversed[o]]_vars

(* the deck was shuffled with orientations, a card was looked up and       *)
(* turned by the caller, and a card of the deck has the other orientation  *)
C21_Witness ==
    /\ was_shuffled
    /\ resolved.op = "resolve_card_codes"
    /\ resolved.status = "ok"
    /\ resolved.oriented = 2
    /\ Len(resolved.objects) = 2
    /\ is_reversed[resolved.objects[2]] # resolved.cards[2].is_reversed
    /\ \E o \in DeckObjects : is_reversed[o] # is_reversed[resolved.objects[2]]
    /\ \E o \in DeckObjects : is_reversed[o]

(* a call of draw_cards_for_reading of the interleaved readings returned *)
HasDrawn == call.op = "draw_cards_for_reading" /\ result.status = "ok"

(* what the call returned is the head of the shuffle made from its own     *)
(* seed, with the orientations that shuffle left                           *)
ReturnsOwnShuffle ==
    /\ result.cards = SliceTo(result.own_shuffled,
                              NormalizeSpreadLayout(call.layout).needed_cards)
    /\ result.orientations = Orientations(result.cards, result.own_is_reversed)

(* C22: when two readings on one TarotDivination interleave between their  *)
(* shuffle and draw steps, each still returns the first n cards, with      *)
(* their orientations, of the shuffle derived from its own seed.           *)
C22_InterleavedReadings == HasDrawn => ReturnsOwnShuffle

====
